---------------------------- MODULE Spec2Model ----------------------------
(***************************************************************************)
(* Model of the Anthropic <-> Gemini bridge of claude-relay-service.       *)
(*                                                                         *)
(* Part 1 (specification Spec): the streaming branch of                    *)
(* handleAnthropicMessagesToGemini in                                      *)
(* src/services/anthropicGeminiBridgeService.js: the closure variables of  *)
(* one streaming response, the callbacks registered on the upstream        *)
(* stream (data, end, error), the two watchdog timers, the client-close    *)
(* listener, finalize and the rescue calls it awaits.                      *)
(*                                                                         *)
(* Part 2 (specification SpecTransport): request() of                      *)
(* src/services/antigravityClient.js with the process-wide model cooldown  *)
(* map, the endpoint fallback loop and the capacity wait.                  *)
(*                                                                         *)
(* Part 3 (specification SpecController): the retry of the first upstream  *)
(* attempt in handleAnthropicMessagesToGemini (tools stripped after a      *)
(* schema rejection, another account after a 429) with the process-wide    *)
(* quota strike map.  The non-stream and the stream branch have the same   *)
(* try/catch; one model stands for both.                                   *)
(*                                                                         *)
(* Part 4 (specification SpecSignatureCache): the signature cache module   *)
(* (src/unnamed/part_000, from line 361): its four maps, the cache* and    *)
(* get* functions and the clock.                                            *)
(*                                                                         *)
(* Part 5 (specification SpecCacheCaps): the two insert-then-evict paths   *)
(* of the signature cache, run on one map of a few keys with the cap as an *)
(* input, so that overflow happens.                                         *)
(*                                                                         *)
(* Part 6 (specification SpecNormalizer): the message preprocessing of     *)
(* buildGeminiRequestFromAnthropic (mergeConsecutiveMessages,              *)
(* sortThinkingBlocksFirst, purifyHistoryThinking, closeToolLoopForThinking,*)
(* normalizeAnthropicMessages) and the direct normalizeAnthropicMessages   *)
(* call of the count_tokens handler, applied to bounded message lists.     *)
(*                                                                         *)
(* Strings are sequences of one-character strings, so that startsWith,     *)
(* slice and indexOf are computed as the code computes them.  A chunk is a *)
(* sequence of complete SSE lines (the carry-over of a partial last line   *)
(* in `buffer` is not modelled: every chunk ends with a newline).          *)
(***************************************************************************)
EXTENDS Integers, Sequences, FiniteSets, TLC

VARIABLES
    st,            \* closure variables of the streaming response + the response object
    cfg,           \* per-request configuration (vendor, thinking, planned tool)
    up,            \* the upstream stream: connecting / open / ended / errored / failed
    clientClosed,  \* req 'close' has been emitted
    pc,            \* where finalize is suspended: none / rescue1 / backoff / rescue2 / done
    nChunks,       \* number of 'data' events delivered so far
    usageOnly,     \* history: every chunk delivered so far carried only usageMetadata
    now,           \* Date.now(), in milliseconds
    modelUnavailableCooldowns,  \* antigravityClient: model -> [untilMs, reason]
    rq,            \* antigravityClient: the locals of the request() call in progress
    env,           \* antigravityClient: process.env settings read by request()
    antigravityQuotaStrikesByAccountId,  \* bridge: accountId -> [count, lastAtMs]
    ctl,           \* bridge: the first attempt of one handler call and its retry
    toolSignatureCache,           \* signature cache: toolId -> [signature, timestamp]
    modelFamilyCache,             \* signature cache: signature -> [modelFamily, timestamp]
    sessionLatestSignatureCache,  \* signature cache: sessionId -> [signature, timestamp]
    signatureCache,               \* signature cache: sessionId -> textHash -> [signature, timestamp]
    lastCall,      \* signature cache: the last call, what it returned and what it removed
    capCache,      \* cache caps: one map, key -> [signature, timestamp]
    capIn,         \* cache caps: which insert path fills the map, and the cap it is given
    capLast,       \* cache caps: the key of the last insert and the keys it evicted
    nz,            \* normalizer: the client's messages and what each step made of them
    tr,            \* translator: normalized messages, options, caches and the contents built
    fcall          \* one call of a function checked on its own: its input and its result

streamVars == <<st, cfg, up, clientClosed, pc, nChunks, usageOnly>>
transportVars == <<now, modelUnavailableCooldowns, rq, env>>
controllerVars == <<antigravityQuotaStrikesByAccountId, ctl>>
cacheVars == <<toolSignatureCache, modelFamilyCache, sessionLatestSignatureCache,
               signatureCache, lastCall>>
capVars == <<capCache, capIn, capLast>>
pureVars == <<capVars, nz, tr, fcall>>
vars == <<streamVars, transportVars, controllerVars, cacheVars, pureVars>>

-----------------------------------------------------------------------------
(* Bounds *)

MaxChunks == 3

MaxRequests == 2     \* request() calls in one behaviour
MaxNow == 80000      \* the clock is not advanced by Tick beyond this
MaxHandlerCalls == 5 \* handler calls in one behaviour
MaxStrikeTicks == 2  \* the clock is advanced at most this often between handler calls
MaxCacheSlack == 1   \* the cache clock is read up to this long after 0 and after the TTL
MaxCapLimit == 3     \* the caps given to the insert paths in SpecCacheCaps are 1..MaxCapLimit
MaxMessages == 3     \* the longest client message list
MaxThinkingBlocks == 2   \* the most thinking blocks in a translated message
MaxToolResultBlocks == 3 \* the most blocks in the content of a tool result
MaxErrorDetails == 2 \* the most details in an error body

(* Program constants *)

MAX_BUFFER_CHARS == 65536
MinSignatureLen == 8
MaxSignatureLen == 65536
DEFAULT_MODEL_UNAVAILABLE_COOLDOWN_MS == 60000
DEFAULT_MODEL_CAPACITY_COOLDOWN_MS == 15000
DEFAULT_MAX_FALLBACKS_PER_REQUEST == 1
ANTIGRAVITY_DEFAULT_RATE_LIMIT_SECONDS == 30
ANTIGRAVITY_QUOTA_LOCKOUT_SECONDS == <<60, 300, 1800, 7200>>
ANTIGRAVITY_QUOTA_STRIKE_TTL_MS == 21600000
SIGNATURE_CACHE_TTL_MS == 7200000
MIN_SIGNATURE_LENGTH == 50
MAX_ANTIGRAVITY_TOOL_RESULT_CHARS == 200000
TOOL_CACHE_LIMIT == 500
FAMILY_CACHE_LIMIT == 200
SESSION_CACHE_LIMIT == 1000
MAX_ENTRIES_PER_SESSION == 100

-----------------------------------------------------------------------------
(* Strings as sequences of characters *)

\* Let(v, LAMBDA x : e): e with x bound to v ("const x = v" of the code)
Let(v, F(_)) == F(v)

startsWith(s, p) == Len(p) <= Len(s) /\ SubSeq(s, 1, Len(p)) = p

\* JS s.slice(a, b) and s.slice(a), 0-based
slice(s, a, b) == SubSeq(s, a + 1, b)
sliceFrom(s, a) == SubSeq(s, a + 1, Len(s))

MinOf(S) == CHOOSE x \in S : \A y \in S : x <= y

\* JS s.indexOf(needle, from): 0-based position or -1
indexOf(s, needle, from) ==
    LET cands == {i \in from..(Len(s) - Len(needle)) :
                      SubSeq(s, i + 1, i + Len(needle)) = needle}
    IN IF cands = {} THEN -1 ELSE MinOf(cands)

Whitespace == {" "}

RECURSIVE trimStart(_)
trimStart(s) ==
    IF s # <<>> /\ Head(s) \in Whitespace THEN trimStart(Tail(s)) ELSE s

RECURSIVE trimEnd(_)
trimEnd(s) ==
    IF s # <<>> /\ s[Len(s)] \in Whitespace
    THEN trimEnd(SubSeq(s, 1, Len(s) - 1)) ELSE s

trim(s) == trimEnd(trimStart(s))

RECURSIVE JoinChars(_)
JoinChars(s) == IF s = <<>> THEN "" ELSE Head(s) \o JoinChars(Tail(s))

RECURSIVE Flatten(_)
Flatten(ss) == IF ss = <<>> THEN <<>> ELSE Head(ss) \o Flatten(Tail(ss))

-----------------------------------------------------------------------------
(* JSON objects: functions from keys to values.  A value is a string       *)
(* ([arr |-> FALSE, items |-> <<s>>]) or an array of strings.              *)

EmptyObj == [k \in {} |-> [arr |-> FALSE, items |-> <<>>]]
StrVal(s) == [arr |-> FALSE, items |-> <<s>>]
ArrVal(ss) == [arr |-> TRUE, items |-> ss]

Obj1(k, v) == [x \in {k} |-> v]
hasKey(o, k) == k \in DOMAIN o
\* JS truthiness of o[k]: present and not the empty string
truthy(o, k) == k \in DOMAIN o /\ (o[k].arr \/ o[k].items # <<"">>)
setKey(o, k, v) == [x \in (DOMAIN o) \cup {k} |-> IF x = k THEN v ELSE o[x]]
deleteKey(o, k) == [x \in (DOMAIN o) \ {k} |-> o[x]]

\* every key the model uses, in the order Object.keys(value).sort() gives
KeyOrder == <<"description", "file_path", "input", "path", "paths", "pattern", "query">>

stableJsonStringify(o) ==
    LET keys == SelectSeq(KeyOrder, LAMBDA k : k \in DOMAIN o)
    IN [i \in 1..Len(keys) |-> <<keys[i], o[keys[i]]>>]

\* JSON.parse restricted to texts over the characters { and }: the only
\* such text that is a JSON document is "{}"
JsonParses(s) == s = <<"{", "}">>
JsonParse(s) == EmptyObj

toLowerCase(name) ==
    CASE name = "Grep" -> "grep"
      [] name = "Glob" -> "glob"
      [] name = "Read" -> "read"
      [] name = "LS" -> "ls"
      [] name = "EnterPlanMode" -> "enterplanmode"
      [] OTHER -> name

\* faulty variant of remapFunctionCallArgs: the arguments are left as they came
remapFunctionCallArgsNot(name, args) == args

remapFunctionCallArgs(name, args) ==
    Let(toLowerCase(name), LAMBDA nameLower :
    IF nameLower = "enterplanmode" THEN EmptyObj
    ELSE IF nameLower \in {"grep", "search", "glob",
                           "search_code_definitions", "search_code_snippets"}
    THEN Let(IF truthy(args, "description") /\ ~truthy(args, "pattern")
             THEN deleteKey(setKey(args, "pattern", args["description"]), "description")
             ELSE args, LAMBDA a1 :
         Let(IF truthy(a1, "query") /\ ~truthy(a1, "pattern")
             THEN deleteKey(setKey(a1, "pattern", a1["query"]), "query")
             ELSE a1, LAMBDA a2 :
         IF ~truthy(a2, "path")
         THEN IF truthy(a2, "paths")
              THEN Let(a2["paths"], LAMBDA paths :
                   Let(IF paths.arr
                       THEN (IF Len(paths.items) > 0 THEN paths.items[1] ELSE ".")
                       ELSE paths.items[1], LAMBDA pathStr :
                   deleteKey(setKey(a2, "path", StrVal(pathStr)), "paths")))
              ELSE setKey(a2, "path", StrVal("."))
         ELSE a2))
    ELSE IF nameLower = "read"
    THEN IF truthy(args, "path") /\ ~truthy(args, "file_path")
         THEN deleteKey(setKey(args, "file_path", args["path"]), "path")
         ELSE args
    ELSE IF nameLower = "ls"
    THEN IF ~truthy(args, "path") THEN setKey(args, "path", StrVal(".")) ELSE args
    ELSE IF ~truthy(args, "path") /\ truthy(args, "paths")
              /\ args["paths"].arr /\ Len(args["paths"].items) = 1
         THEN deleteKey(setKey(args, "path", StrVal(args["paths"].items[1])), "paths")
         ELSE args)

-----------------------------------------------------------------------------
(* Events written to the client (writeAnthropicSseEvent)                   *)

Ev(type, index, kind, text, id, name, json) ==
    [type |-> type, index |-> index, kind |-> kind, text |-> text,
     id |-> id, name |-> name, json |-> json]

writeAnthropicSseEvent(s, ev) ==
    [s EXCEPT !.out = Append(@, ev), !.headersSent = TRUE]

resEnd(s, who) == [s EXCEPT !.resEndCalls = Append(@, who)]


-----------------------------------------------------------------------------
(* Content-block helpers of the streaming closure                          *)

\* faulty variant of startTextBlock: the block is announced under the next index
startTextBlockAtNextIndex(s, index) ==
    writeAnthropicSseEvent(s, Ev("content_block_start", index + 1, "text", <<>>, "", "", <<>>))

startTextBlock(s, index) ==
    writeAnthropicSseEvent(s, Ev("content_block_start", index, "text", <<>>, "", "", <<>>))

startThinkingBlock(s, index) ==
    writeAnthropicSseEvent(s, Ev("content_block_start", index, "thinking", <<>>, "", "", <<>>))

stopCurrentBlock(s) ==
    writeAnthropicSseEvent(s, Ev("content_block_stop", s.currentIndex, "", <<>>, "", "", <<>>))

\* "if (currentBlockType === 'text' || currentBlockType === 'thinking') stopCurrentBlock()"
stopIfOpen(s) ==
    IF s.currentBlockType \in {"text", "thinking"} THEN stopCurrentBlock(s) ELSE s

\* faulty variant of switchBlockType: currentIndex is not advanced
switchBlockTypeSameIndex(s, nextType) ==
    IF s.currentBlockType = nextType THEN s
    ELSE Let([stopIfOpen(s) EXCEPT !.currentBlockType = nextType],
             LAMBDA s2 :
             IF nextType = "text" THEN startTextBlock(s2, s2.currentIndex)
             ELSE IF nextType = "thinking" THEN startThinkingBlock(s2, s2.currentIndex)
             ELSE s2)

switchBlockType(s, nextType) ==
    IF s.currentBlockType = nextType THEN s
    ELSE Let([stopIfOpen(s) EXCEPT !.currentIndex = @ + 1, !.currentBlockType = nextType],
             LAMBDA s2 :
             IF nextType = "text" THEN startTextBlock(s2, s2.currentIndex)
             ELSE IF nextType = "thinking" THEN startThinkingBlock(s2, s2.currentIndex)
             ELSE s2)

canStartThinkingBlock(s) ==
    IF cfg.vendor = "antigravity" /\ cfg.wantsThinkingBlockFirst /\ s.emittedAnyToolUse
    THEN FALSE
    ELSE IF s.currentIndex < 0 THEN TRUE
    ELSE IF s.currentBlockType = "thinking" THEN TRUE
    ELSE IF s.emittedThinking # <<>> \/ s.emittedThoughtSignature # <<>> THEN TRUE
    ELSE FALSE

\* buildToolUseId(): a fresh random id, never equal to a backend call id
buildToolUseId == "toolu_generated"

emitToolUseBlock(s, name, args, id) ==
    LET args1 == remapFunctionCallArgs(name, args)
        toolUseId == IF id # "" THEN id ELSE buildToolUseId
        jsonArgs == stableJsonStringify(args1)
        toolIndex == s.currentIndex + 1
        s1 == [s EXCEPT !.currentIndex = toolIndex]
        s2 == writeAnthropicSseEvent(s1,
                Ev("content_block_start", toolIndex, "tool_use", <<>>, toolUseId, name, <<>>))
        s3 == writeAnthropicSseEvent(s2,
                Ev("content_block_delta", toolIndex, "input_json_delta", <<>>, "", "", jsonArgs))
        s4 == writeAnthropicSseEvent(s3,
                Ev("content_block_stop", toolIndex, "", <<>>, "", "", <<>>))
    IN [s4 EXCEPT !.emittedAnyToolUse = TRUE, !.currentBlockType = "none"]

\* a functionCall of the backend: raw is its args / partialArgs / argsJson value
resolveFunctionCallArgs(fc) ==
    IF fc.rawKind = "obj"
    THEN [hasArgs |-> TRUE, args |-> fc.rawObj, json |-> <<>>, canContinue |-> fc.willContinue]
    ELSE IF fc.rawKind = "none" \/ fc.rawStr = <<>>
    THEN [hasArgs |-> FALSE, args |-> EmptyObj, json |-> <<>>, canContinue |-> fc.willContinue]
    ELSE IF JsonParses(fc.rawStr)
    THEN [hasArgs |-> TRUE, args |-> JsonParse(fc.rawStr), json |-> <<>>,
          canContinue |-> fc.willContinue]
    ELSE [hasArgs |-> FALSE, args |-> EmptyObj, json |-> fc.rawStr,
          canContinue |-> fc.willContinue]

-----------------------------------------------------------------------------
(* MCP XML bridge: <mcp__tool>{json}</mcp__tool> inside text               *)

McpOpen == <<"<", "m", "c", "p", "_", "_">>

TextAction(t) == [type |-> "text", text |-> t, name |-> "", args |-> EmptyObj]
ToolAction(n, a) == [type |-> "tool", text |-> <<>>, name |-> n, args |-> a]

\* m = [buf, inXml, actions]: mcpXmlBuffer, inMcpXml and the local actions list
appendToBuffer(m, str) ==
    IF str = <<>> THEN m
    ELSE Let(m.buf \o str, LAMBDA buf :
         IF Len(buf) > MAX_BUFFER_CHARS
         THEN [buf |-> <<>>, inXml |-> FALSE, actions |-> Append(m.actions, TextAction(buf))]
         ELSE [m EXCEPT !.buf = buf])

mcpToolInput(inputStr) ==
    IF inputStr # <<>>
    THEN (IF JsonParses(inputStr) THEN JsonParse(inputStr)
          ELSE Obj1("input", StrVal(JoinChars(inputStr))))
    ELSE EmptyObj

RECURSIVE mcpXmlLoop(_)
mcpXmlLoop(m) ==
    IF ~(m.inXml /\ m.buf # <<>>) THEN m
    ELSE
    Let(indexOf(m.buf, McpOpen, 0), LAMBDA startIdx :
    IF startIdx = -1
    THEN [buf |-> <<>>, inXml |-> FALSE, actions |-> Append(m.actions, TextAction(m.buf))]
    ELSE
    Let(IF startIdx > 0
        THEN [m EXCEPT !.actions = Append(@, TextAction(slice(m.buf, 0, startIdx))),
                       !.buf = sliceFrom(m.buf, startIdx)]
        ELSE m, LAMBDA m1 :
    Let(indexOf(m1.buf, <<">">>, 0), LAMBDA tagEnd :
    IF tagEnd = -1 THEN [m1 EXCEPT !.inXml = TRUE]
    ELSE
    Let(slice(m1.buf, 1, tagEnd), LAMBDA toolName :
    Let(<<"<", "/">> \o toolName \o <<">">>, LAMBDA endTag :
    Let(indexOf(m1.buf, endTag, tagEnd + 1), LAMBDA closeIdx :
    IF closeIdx = -1 THEN [m1 EXCEPT !.inXml = TRUE]
    ELSE
    Let(sliceFrom(m1.buf, closeIdx + Len(endTag)), LAMBDA rest :
    Let([buf |-> rest, inXml |-> indexOf(rest, McpOpen, 0) # -1,
         actions |-> Append(m1.actions,
                            ToolAction(JoinChars(toolName),
                                       mcpToolInput(trim(slice(m1.buf, tagEnd + 1, closeIdx)))))],
        LAMBDA m2 :
    IF rest = <<>> THEN [m2 EXCEPT !.inXml = FALSE] ELSE mcpXmlLoop(m2)))))))))

\* returns the [buf, inXml, actions] left by processMcpXmlBridgeDelta(deltaText)
processMcpXmlBridgeDelta(s, deltaText) ==
    Let([buf |-> s.mcpXmlBuffer, inXml |-> s.inMcpXml, actions |-> <<>>], LAMBDA m0 :
    IF deltaText = <<>> THEN m0
    ELSE IF ~s.inMcpXml
    THEN Let(indexOf(deltaText, McpOpen, 0), LAMBDA startIdx :
         IF startIdx = -1
         THEN [m0 EXCEPT !.actions = <<TextAction(deltaText)>>]
         ELSE Let(slice(deltaText, 0, startIdx), LAMBDA prefix :
              mcpXmlLoop(appendToBuffer(
                  [m0 EXCEPT !.actions = IF prefix # <<>> THEN <<TextAction(prefix)>> ELSE <<>>,
                             !.inXml = TRUE],
                  sliceFrom(deltaText, startIdx)))))
    ELSE mcpXmlLoop(appendToBuffer(m0, deltaText)))

-----------------------------------------------------------------------------
(* Pending tool calls: pendingToolCallsById is a Map, kept here as the     *)
(* sequence of its entries in insertion order.                             *)

pendingIndex(s, id) ==
    Let({i \in 1..Len(s.pendingToolCallsById) : s.pendingToolCallsById[i].id = id},
        LAMBDA hits : IF hits = {} THEN 0 ELSE MinOf(hits))

pendingDelete(s, id) ==
    [s EXCEPT !.pendingToolCallsById = SelectSeq(@, LAMBDA p : p.id # id)]

IdKey(id) == [id |-> id, name |-> "", json |-> <<>>]
NameKey(name, args) == [id |-> "", name |-> name, json |-> stableJsonStringify(args)]

\* "if (!pending.args && pending.argsJson) { try { JSON.parse ... } }"
parsePendingArgs(pending) ==
    IF ~pending.hasArgs /\ pending.argsJson # <<>> /\ JsonParses(pending.argsJson)
    THEN [pending EXCEPT !.hasArgs = TRUE, !.args = JsonParse(pending.argsJson),
                         !.argsJson = <<>>]
    ELSE pending

\* faulty variant of emitPendingToolCall: emittedToolCallKeys is not consulted
emitPendingToolCallAgain(s, id, name, args) ==
    pendingDelete(
      emitToolUseBlock([stopIfOpen(s) EXCEPT !.currentBlockType = "tool_use"], name, args, id),
      id)

\* flushPendingToolCallById from "const toolKey" on; s holds the updated entry
emitPendingToolCall(s, id, name, args) ==
    IF IdKey(id) \in s.emittedToolCallKeys THEN pendingDelete(s, id)
    ELSE pendingDelete(
           emitToolUseBlock(
             [stopIfOpen([s EXCEPT !.emittedToolCallKeys = @ \cup {IdKey(id)}])
                 EXCEPT !.currentBlockType = "tool_use"],
             name, args, id),
           id)

flushPendingToolCallById(s, id, force) ==
    Let(pendingIndex(s, id), LAMBDA i :
    IF i = 0 THEN s
    ELSE IF s.pendingToolCallsById[i].name = "" THEN s
    ELSE
    Let(parsePendingArgs(s.pendingToolCallsById[i]), LAMBDA p1 :
    Let([s EXCEPT !.pendingToolCallsById[i] = p1], LAMBDA s1 :
    IF ~p1.hasArgs /\ ~force THEN s1
    ELSE emitPendingToolCall(s1, id, p1.name, IF p1.hasArgs THEN p1.args ELSE EmptyObj))))

-----------------------------------------------------------------------------
(* Backend payloads.  A part is                                            *)
(*   [text, thought, sig, hasFc, fc]   with fc = [name, id, rawKind,       *)
(*   rawObj, rawStr, willContinue]; a payload is                           *)
(*   [usageMetadata, finishReason, parts].                                 *)

NoFc == [name |-> "", id |-> "", rawKind |-> "none", rawObj |-> EmptyObj,
         rawStr |-> <<>>, willContinue |-> FALSE]

TextPart(t) == [text |-> t, thought |-> FALSE, sig |-> <<>>, hasFc |-> FALSE, fc |-> NoFc]
ThoughtPart(t, sig) == [text |-> t, thought |-> TRUE, sig |-> sig, hasFc |-> FALSE, fc |-> NoFc]
FcPart(fc, sig) == [text |-> <<>>, thought |-> FALSE, sig |-> sig, hasFc |-> TRUE, fc |-> fc]

FcObj(name, id, obj) ==
    [name |-> name, id |-> id, rawKind |-> "obj", rawObj |-> obj, rawStr |-> <<>>,
     willContinue |-> FALSE]
FcStr(name, id, str, cont) ==
    [name |-> name, id |-> id, rawKind |-> "str", rawObj |-> EmptyObj, rawStr |-> str,
     willContinue |-> cont]

Payload(usage, fin, parts) == [usageMetadata |-> usage, finishReason |-> fin, parts |-> parts]

extractGeminiParts(payload) == payload.parts

joinTexts(ps) == Flatten([i \in 1..Len(ps) |-> ps[i].text])

extractGeminiText(payload) ==
    joinTexts(SelectSeq(payload.parts, LAMBDA p : p.text # <<>> /\ ~p.thought))

extractGeminiThoughtText(payload) ==
    joinTexts(SelectSeq(payload.parts, LAMBDA p : p.thought /\ p.text # <<>>))

firstSigOr(ps, other) == IF ps # <<>> THEN ps[1].sig ELSE other

extractGeminiThoughtSignature(payload) ==
    firstSigOr(SelectSeq(payload.parts, LAMBDA p : p.hasFc /\ p.fc.name # "" /\ p.sig # <<>>),
      firstSigOr(SelectSeq(payload.parts, LAMBDA p : p.thought /\ p.sig # <<>>), <<>>))

\* the characters of /^[A-Za-z0-9+\/_=-]+$/
TokenChars ==
    {"a","b","c","d","e","f","g","h","i","j","k","l","m","n","o","p","q","r","s","t",
     "u","v","w","x","y","z","A","B","C","D","E","F","G","H","I","J","K","L","M","N",
     "O","P","Q","R","S","T","U","V","W","X","Y","Z","0","1","2","3","4","5","6","7",
     "8","9","+","/","_","=","-"}

sanitizeThoughtSignatureForAntigravity(signature) ==
    Let(SelectSeq(signature, LAMBDA c : c \notin Whitespace), LAMBDA compacted :
    IF compacted = <<>> THEN <<>>
    ELSE IF Len(compacted) > MaxSignatureLen THEN <<>>
    ELSE IF \E i \in 1..Len(compacted) : compacted[i] \notin TokenChars THEN <<>>
    ELSE IF Len(compacted) < MinSignatureLen THEN <<>>
    ELSE compacted)

mapGeminiFinishReasonToAnthropicStopReason(finishReason) ==
    IF finishReason \in {"MAX_TOKENS", "max_tokens"} THEN "max_tokens" ELSE "end_turn"

-----------------------------------------------------------------------------
(* streamResponse.on('data'): the work done for one parsed payload         *)

signatureDelta(s, thoughtSignature) ==
    IF startsWith(thoughtSignature, s.emittedThoughtSignature)
    THEN sliceFrom(thoughtSignature, Len(s.emittedThoughtSignature))
    ELSE IF thoughtSignature # s.emittedThoughtSignature THEN thoughtSignature
    ELSE <<>>

\* faulty variant of cumulativeDelta: the whole value is the delta every time
cumulativeDeltaWhole(full, emitted) == full

cumulativeDelta(full, emitted) ==
    IF startsWith(full, emitted) THEN sliceFrom(full, Len(emitted)) ELSE full

\* s is the state after switchBlockType
writeDelta(s, kind, delta) ==
    writeAnthropicSseEvent(s,
        Ev("content_block_delta", s.currentIndex, kind, delta, "", "", <<>>))

emitSignature(s, thoughtSignature) ==
    IF thoughtSignature # <<>> /\ canStartThinkingBlock(s)
    THEN Let(signatureDelta(s, thoughtSignature), LAMBDA delta :
         IF delta # <<>>
         THEN [writeDelta(switchBlockType(s, "thinking"), "signature_delta", delta)
                  EXCEPT !.emittedThoughtSignature = thoughtSignature]
         ELSE s)
    ELSE s

emitThinking(s, fullThought) ==
    IF fullThought # <<>> /\ canStartThinkingBlock(s)
    THEN Let(cumulativeDelta(fullThought, s.emittedThinking), LAMBDA delta :
         IF delta # <<>>
         THEN writeDelta([switchBlockType(s, "thinking") EXCEPT !.emittedThinking = fullThought],
                         "thinking_delta", delta)
         ELSE s)
    ELSE s

\* the thinking delta of the second pass: when one is written, the signature
\* received so far is handed to signatureCache.cacheSignature
emitThinkingAndCache(s, fullThought) ==
    Let(emitThinking(s, fullThought), LAMBDA s2 :
        IF /\ fullThought # <<>> /\ canStartThinkingBlock(s)
           /\ cumulativeDelta(fullThought, s.emittedThinking) # <<>>
           /\ cfg.vendor = "antigravity" /\ cfg.sessionHash # ""
           /\ s2.emittedThoughtSignature # <<>>
        THEN [s2 EXCEPT !.signatureCacheCalls =
                 Append(@, [sessionId |-> cfg.sessionHash, text |-> fullThought,
                            signature |-> s2.emittedThoughtSignature])]
        ELSE s2)

\* the entry pendingToolCallsById.get(id) || {id, name, args: null, argsJson: ''},
\* updated with this event's name and arguments
updatedPending(old, functionCall, r) ==
    IF r.hasArgs
    THEN [old EXCEPT !.name = functionCall.name, !.hasArgs = TRUE, !.args = r.args,
                     !.argsJson = <<>>]
    ELSE IF r.json # <<>>
    THEN [old EXCEPT !.name = functionCall.name, !.argsJson = @ \o r.json]
    ELSE [old EXCEPT !.name = functionCall.name]

handleFunctionCallWithId(s, functionCall, r, i) ==
    Let(IF i = 0
        THEN [s EXCEPT !.pendingToolCallsById =
                 Append(@, updatedPending(
                              [id |-> functionCall.id, name |-> functionCall.name,
                               hasArgs |-> FALSE, args |-> EmptyObj, argsJson |-> <<>>],
                              functionCall, r))]
        ELSE [s EXCEPT !.pendingToolCallsById[i] = updatedPending(@, functionCall, r)],
        LAMBDA s1 :
        IF ~r.canContinue THEN flushPendingToolCallById(s1, functionCall.id, FALSE) ELSE s1)

handleFunctionCallWithoutId(s, name, finalArgs) ==
    IF NameKey(name, finalArgs) \in s.emittedToolCallKeys THEN s
    ELSE emitToolUseBlock(
           [stopIfOpen([s EXCEPT !.emittedToolCallKeys = @ \cup {NameKey(name, finalArgs)}])
               EXCEPT !.currentBlockType = "tool_use"],
           name, finalArgs, "")

handleFunctionCall(s, functionCall) ==
    IF functionCall.name = "" THEN s
    ELSE Let(resolveFunctionCallArgs(functionCall), LAMBDA r :
         IF functionCall.id = ""
         THEN handleFunctionCallWithoutId(s, functionCall.name,
                                          IF r.hasArgs THEN r.args ELSE EmptyObj)
         ELSE handleFunctionCallWithId(s, functionCall, r, pendingIndex(s, functionCall.id)))

RECURSIVE handleFunctionCalls(_, _)
handleFunctionCalls(s, parts) ==
    IF parts = <<>> THEN s
    ELSE handleFunctionCalls(
           IF Head(parts).hasFc THEN handleFunctionCall(s, Head(parts).fc) ELSE s,
           Tail(parts))

applyMcpAction(s, action) ==
    IF action.type = "text"
    THEN (IF action.text = <<>> THEN s
          ELSE writeDelta(switchBlockType(s, "text"), "text_delta", action.text))
    ELSE emitToolUseBlock(stopIfOpen(s), action.name, action.args, "")

RECURSIVE applyMcpActions(_, _)
applyMcpActions(s, actions) ==
    IF actions = <<>> THEN s
    ELSE applyMcpActions(applyMcpAction(s, Head(actions)), Tail(actions))

emitText(s, fullText) ==
    IF fullText = <<>> THEN s
    ELSE Let(cumulativeDelta(fullText, s.emittedText), LAMBDA delta :
         IF delta = <<>> THEN s
         ELSE Let(processMcpXmlBridgeDelta(s, delta), LAMBDA m :
              [applyMcpActions([s EXCEPT !.mcpXmlBuffer = m.buf, !.inMcpXml = m.inXml],
                               m.actions)
                  EXCEPT !.emittedText = fullText]))

recordUsageAndFinish(s, payload) ==
    [s EXCEPT !.usageMetadata = IF payload.usageMetadata THEN TRUE ELSE @,
              !.finishReason = IF payload.finishReason # "" THEN payload.finishReason ELSE @]

handleParts(s, payload, thoughtSignature, fullThought) ==
    emitText(
      emitThinkingAndCache(
        emitSignature(
          handleFunctionCalls(
            IF cfg.wantsThinkingBlockFirst
            THEN emitThinking(emitSignature(s, thoughtSignature), fullThought)
            ELSE s,
            extractGeminiParts(payload)),
          thoughtSignature),
        fullThought),
      extractGeminiText(payload))

handlePayload(s, payload) ==
    handleParts(recordUsageAndFinish(s, payload), payload,
                IF cfg.vendor = "antigravity"
                THEN sanitizeThoughtSignatureForAntigravity(extractGeminiThoughtSignature(payload))
                ELSE extractGeminiThoughtSignature(payload),
                extractGeminiThoughtText(payload))

\* a line of the chunk: [kind, payload], kind data / invalid / control / blank
handleLine(s, line) ==
    IF line.kind = "invalid" THEN [s EXCEPT !.invalidSseLines = @ + 1]
    ELSE IF line.kind = "data" THEN handlePayload(s, line.payload)
    ELSE s

RECURSIVE handleLines(_, _)
handleLines(s, lines) ==
    IF lines = <<>> THEN s
    ELSE handleLines(handleLine(s, Head(lines)), Tail(lines))

resetActivityTimeout(s) == [s EXCEPT !.activityTimeout = TRUE]

\* "if (!receivedAnyUpstreamBytes) { ...; clearTimeout(firstByteTimeout) }"
noteFirstByte(s) ==
    IF ~s.receivedAnyUpstreamBytes
    THEN [s EXCEPT !.receivedAnyUpstreamBytes = TRUE, !.firstByteTimeout = FALSE]
    ELSE s

onData(s, lines) ==
    IF s.finished THEN noteFirstByte(resetActivityTimeout(s))
    ELSE handleLines(noteFirstByte(resetActivityTimeout(s)), lines)

-----------------------------------------------------------------------------
(* Non-stream payload -> Anthropic content blocks (used by the rescue)     *)

Block(type, text, signature, id, name, input) ==
    [type |-> type, text |-> text, signature |-> signature, id |-> id,
     name |-> name, input |-> input]

normalizeToolUseInput(fc) ==
    IF fc.rawKind = "obj" THEN fc.rawObj
    ELSE IF fc.rawKind = "str" /\ trim(fc.rawStr) # <<>> /\ JsonParses(trim(fc.rawStr))
    THEN JsonParse(trim(fc.rawStr))
    ELSE EmptyObj

flushText(content, currentText) ==
    IF currentText = <<>> THEN content
    ELSE Append(content, Block("text", currentText, <<>>, "", "", EmptyObj))

\* faulty variant of pushThinkingBlock: the signature is not put on the block
pushThinkingBlockUnsigned(content, thinkingText, signature) ==
    IF thinkingText = <<>> /\ signature = <<>> THEN content
    ELSE Append(content, Block("thinking", thinkingText, <<>>, "", "", EmptyObj))

pushThinkingBlock(content, thinkingText, signature) ==
    IF thinkingText = <<>> /\ signature = <<>> THEN content
    ELSE Append(content, Block("thinking", thinkingText, signature, "", "", EmptyObj))

\* the functionCall branch of the loop: content is already flushed
pushToolUse(content, part) ==
    Append(IF part.sig # <<>> THEN pushThinkingBlock(content, <<>>, part.sig) ELSE content,
           Block("tool_use", <<>>, <<>>,
                 IF part.fc.id # "" THEN part.fc.id ELSE buildToolUseId,
                 part.fc.name, normalizeToolUseInput(part.fc)))

RECURSIVE convertParts(_, _, _)
convertParts(parts, content, currentText) ==
    IF parts = <<>> THEN flushText(content, currentText)
    ELSE IF Head(parts).thought
    THEN convertParts(Tail(parts),
                      pushThinkingBlock(flushText(content, currentText),
                                        Head(parts).text, Head(parts).sig),
                      <<>>)
    ELSE IF Head(parts).text # <<>>
    THEN convertParts(Tail(parts), content, currentText \o Head(parts).text)
    ELSE IF Head(parts).hasFc /\ Head(parts).fc.name # ""
    THEN convertParts(Tail(parts), pushToolUse(flushText(content, currentText), Head(parts)),
                      <<>>)
    ELSE convertParts(Tail(parts), content, currentText)

\* "thinking blocks must be first": the reordering at the end of the conversion
thinkingFirst(content) ==
    IF SelectSeq(content, LAMBDA b : b.type = "thinking") # <<>> /\ content[1].type # "thinking"
    THEN SelectSeq(content, LAMBDA b : b.type = "thinking")
         \o SelectSeq(content, LAMBDA b : b.type # "thinking")
    ELSE content

convertGeminiPayloadToAnthropicContent(payload) ==
    Let(convertParts(extractGeminiParts(payload), <<>>, <<>>), thinkingFirst)

-----------------------------------------------------------------------------
(* finalize and tryRescueAfterMissingFinishReason.  Each operator returns  *)
(* [s, pc]: the closure state and where the async function is suspended.   *)

Suspended(s, where) == [s |-> s, pc |-> where]

\* faulty variant of hasAnyContent: thought text does not count as content
hasAnyContentButThinking(s) ==
    s.emittedText # <<>> \/ s.emittedAnyToolUse

hasAnyContent(s) ==
    s.emittedText # <<>> \/ s.emittedAnyToolUse \/ s.emittedThinking # <<>>

\* faulty variant of writeMessageEnd: message_stop is forgotten
writeMessageEndWithoutStop(s, stopReason) ==
    resEnd(writeAnthropicSseEvent(stopIfOpen(s),
                                  Ev("message_delta", -1, stopReason, <<>>, "", "", <<>>)),
           "finalize")

\* stop the open block, message_delta, message_stop, res.end()
writeMessageEnd(s, stopReason) ==
    resEnd(
      writeAnthropicSseEvent(
        writeAnthropicSseEvent(stopIfOpen(s),
                               Ev("message_delta", -1, stopReason, <<>>, "", "", <<>>)),
        Ev("message_stop", -1, "", <<>>, "", "", <<>>)),
      "finalize")

\* stands for the fixed non-empty fallbackText literal
FallbackText == <<"f", "a", "l", "l", "b", "a", "c", "k">>

\* switchBlockType('text'); emittedText = text; write the text_delta
writeWholeText(s, text) ==
    writeDelta([switchBlockType(s, "text") EXCEPT !.emittedText = text], "text_delta", text)

inferredStopReason(s) == IF s.emittedAnyToolUse THEN "tool_use" ELSE "end_turn"

\* faulty variant of finalizeAfterRescue: the fallback text is not written
finalizeAfterRescueWithoutFallback(s) ==
    Suspended(writeMessageEnd(s, inferredStopReason(s)), "done")

\* finalize from "const hasContentAfterRescue" to its last return
finalizeAfterRescue(s) ==
    IF hasAnyContent(s)
    THEN Suspended(writeMessageEnd(s, inferredStopReason(s)), "done")
    ELSE Suspended(writeMessageEnd(writeWholeText(s, FallbackText), "end_turn"), "done")

rescuedTextOf(content) ==
    joinTexts(SelectSeq(content, LAMBDA b : b.type = "text" /\ b.text # <<>>))

\* the rescued text is written only "if (!emittedText && Array.isArray(rescuedContent))"
rescueText(s) ==
    IF s.emittedText = <<>> /\ rescuedTextOf(s.rescuedContent) # <<>>
    THEN writeWholeText(s, rescuedTextOf(s.rescuedContent))
    ELSE s

emitRescuedToolUse(s, toolUse) ==
    emitToolUseBlock([stopIfOpen(s) EXCEPT !.currentBlockType = "tool_use"],
                     toolUse.name, toolUse.input, toolUse.id)

\* tryRescueAfterMissingFinishReason up to its first await
tryRescueAfterMissingFinishReason(s) ==
    IF cfg.vendor # "antigravity" THEN finalizeAfterRescue(s)
    ELSE IF s.rescueAttempted THEN finalizeAfterRescue(s)
    ELSE IF s.emittedAnyToolUse THEN finalizeAfterRescue(s)
    ELSE Suspended([s EXCEPT !.rescueAttempted = TRUE,
                             !.rescueCalls = Append(@, "level1")],
                   "rescue1")

toolUsesOf(content) == SelectSeq(content, LAMBDA b : b.type = "tool_use" /\ b.name # "")

noteUsage(s, payload) ==
    IF payload.usageMetadata THEN [s EXCEPT !.usageMetadata = TRUE] ELSE s

\* s already holds rescuedContent
afterLevel1(s) ==
    IF toolUsesOf(s.rescuedContent) # <<>>
    THEN finalizeAfterRescue(emitRescuedToolUse(s, toolUsesOf(s.rescuedContent)[1]))
    ELSE IF cfg.plannedToolName # "" /\ ~s.forcedRescueAttempted
    THEN Suspended([s EXCEPT !.forcedRescueAttempted = TRUE], "backoff")
    ELSE finalizeAfterRescue(rescueText(s))

\* the Level 1 response arrives: resp = [throws, payload]
rescueLevel1Returned(s, resp) ==
    IF resp.throws THEN finalizeAfterRescue(s)
    ELSE afterLevel1([noteUsage(s, resp.payload) EXCEPT
                         !.rescuedContent = convertGeminiPayloadToAnthropicContent(resp.payload)])

\* the 800 ms backoff is over: the forced request is sent
rescueBackoffDone(s) ==
    Suspended([s EXCEPT !.rescueCalls = Append(@, "level2")], "rescue2")

afterLevel2(s, forcedContent) ==
    IF toolUsesOf(forcedContent) # <<>>
    THEN finalizeAfterRescue(emitRescuedToolUse(s, toolUsesOf(forcedContent)[1]))
    ELSE finalizeAfterRescue(rescueText(s))

\* the Level 2 (forced tool) response arrives
rescueLevel2Returned(s, resp) ==
    IF resp.throws THEN finalizeAfterRescue(s)
    ELSE afterLevel2(noteUsage(s, resp.payload),
                     convertGeminiPayloadToAnthropicContent(resp.payload))

RECURSIVE flushAllPending(_, _)
flushAllPending(s, ids) ==
    IF ids = <<>> THEN s
    ELSE flushAllPending(flushPendingToolCallById(s, Head(ids), TRUE), Tail(ids))

pendingIds(s) == [i \in 1..Len(s.pendingToolCallsById) |-> s.pendingToolCallsById[i].id]

flushMcpXmlBuffer(s) ==
    IF s.mcpXmlBuffer # <<>>
    THEN writeDelta(switchBlockType([s EXCEPT !.mcpXmlBuffer = <<>>, !.inMcpXml = FALSE], "text"),
                    "text_delta", s.mcpXmlBuffer)
    ELSE s

\* finalize from "if (!finishReason)" on
finalizeFlushed(s) ==
    IF s.finishReason = ""
    THEN IF hasAnyContent(s)
         THEN Suspended(writeMessageEnd(s, inferredStopReason(s)), "done")
         ELSE tryRescueAfterMissingFinishReason(s)
    ELSE Suspended(writeMessageEnd(s,
                     IF s.emittedAnyToolUse THEN "tool_use"
                     ELSE mapGeminiFinishReasonToAnthropicStopReason(s.finishReason)),
                   "done")

\* faulty variant of finalize: the finished guard at its entry is missing
finalizeUnguarded(s) ==
    finalizeFlushed(
      flushMcpXmlBuffer(
        flushAllPending([s EXCEPT !.finished = TRUE], pendingIds(s))))

finalize(s) ==
    IF s.finished THEN Suspended(s, "none")
    ELSE finalizeFlushed(
           flushMcpXmlBuffer(
             flushAllPending([s EXCEPT !.finished = TRUE], pendingIds(s))))

-----------------------------------------------------------------------------
(* The other callbacks                                                     *)

clearTimers(s) == [s EXCEPT !.activityTimeout = FALSE, !.firstByteTimeout = FALSE]

ErrorEvent(kind) == Ev("error", -1, kind, <<>>, "", "", <<>>)

\* streamResponse.on('error')
onError(s) ==
    IF s.finished THEN clearTimers(s)
    ELSE resEnd(writeAnthropicSseEvent(clearTimers(s), ErrorEvent("api_error")), "error")

\* streamResponse.on('end')
\* faulty variant: the end of the stream clears the timers and finalizes nothing
onEndWithoutFinalize(s) == [s |-> clearTimers(s), pc |-> "none"]

onEnd(s) == finalize(clearTimers(s))

\* abortController.abort(), guarded by "if (!abortController.signal.aborted)".
\* sync: the upstream client emits 'error' on the stream from inside abort().
abort(s, sync) ==
    IF s.aborted THEN s
    ELSE IF sync THEN onError([s EXCEPT !.aborted = TRUE])
    ELSE [s EXCEPT !.aborted = TRUE]

\* faulty variant of the activityTimeout callback: abort() before finished = true
activityTimeoutAbortsFirst(s, sync) ==
    IF s.finished THEN [s EXCEPT !.activityTimeout = FALSE]
    ELSE resEnd(
           writeAnthropicSseEvent(
             [abort([s EXCEPT !.activityTimeout = FALSE], sync)
                 EXCEPT !.finished = TRUE, !.firstByteTimeout = FALSE],
             ErrorEvent("overloaded_error")),
           "activity")

\* the callback of activityTimeout
activityTimeoutFired(s, sync) ==
    IF s.finished THEN [s EXCEPT !.activityTimeout = FALSE]
    ELSE resEnd(
           writeAnthropicSseEvent(
             [abort([s EXCEPT !.activityTimeout = FALSE, !.finished = TRUE], sync)
                 EXCEPT !.firstByteTimeout = FALSE],
             ErrorEvent("overloaded_error")),
           "activity")

\* the callback of firstByteTimeout
firstByteTimeoutFired(s, sync) ==
    IF s.finished \/ s.receivedAnyUpstreamBytes THEN [s EXCEPT !.firstByteTimeout = FALSE]
    ELSE resEnd(
           writeAnthropicSseEvent(
             abort([s EXCEPT !.firstByteTimeout = FALSE, !.finished = TRUE], sync),
             ErrorEvent("overloaded_error")),
           "firstbyte")

\* faulty variant of the catch block: the JSON body is followed by an SSE error
catchBlockAnswersTwice(s) ==
    resEnd(writeAnthropicSseEvent([s EXCEPT !.jsonBody = TRUE], ErrorEvent("api_error")),
           "catch")

\* the catch block of the streaming branch
catchBlock(s) ==
    IF ~s.headersSent
    THEN resEnd([s EXCEPT !.headersSent = TRUE, !.jsonBody = TRUE], "json")
    ELSE resEnd(writeAnthropicSseEvent(s, ErrorEvent("api_error")), "catch")

\* "let currentIndex = wantsThinkingBlockFirst ? 0 : -1" and the first thinking block
openFirstBlock(s) ==
    IF cfg.wantsThinkingBlockFirst
    THEN startThinkingBlock([s EXCEPT !.currentIndex = 0, !.currentBlockType = "thinking"], 0)
    ELSE s

armFirstByteTimeout(s) ==
    IF cfg.vendor = "antigravity" THEN [s EXCEPT !.firstByteTimeout = TRUE] ELSE s

\* from res.setHeader(...) to the registration of the callbacks
startSse(s) ==
    openFirstBlock(
      armFirstByteTimeout(
        resetActivityTimeout(
          writeAnthropicSseEvent(s, Ev("message_start", -1, "", <<>>, "", "", <<>>)))))

-----------------------------------------------------------------------------
(* Inputs: what the backend may send                                       *)

TxtHi == <<"H", "i">>
TxtHiBang == <<"H", "i", "!">>
TxtHello == <<"H", "e", "l", "l", "o">>
ThoughtT == <<"t">>
ThoughtTU == <<"t", "u">>
SigA == <<"s", "i", "g", "A", "A", "A", "A", "A">>
SigAB == <<"s", "i", "g", "A", "A", "A", "A", "A", "B">>
McpHead == <<"<", "m", "c", "p", "_", "_", "t", ">">>
McpFull == <<"<", "m", "c", "p", "_", "_", "t", ">", "{", "}",
             "<", "/", "m", "c", "p", "_", "_", "t", ">">>

DataLine(payload) == [kind |-> "data", payload |-> payload]
InvalidLine == [kind |-> "invalid", payload |-> Payload(FALSE, "", <<>>)]

UsageOnlyChunk == <<DataLine(Payload(TRUE, "", <<>>))>>

Chunks ==
    { <<DataLine(Payload(FALSE, "", <<TextPart(TxtHi)>>))>>,
      <<DataLine(Payload(FALSE, "", <<TextPart(TxtHiBang)>>))>>,
      <<DataLine(Payload(FALSE, "", <<TextPart(TxtHello)>>))>>,
      <<DataLine(Payload(FALSE, "", <<ThoughtPart(ThoughtT, SigA)>>))>>,
      <<DataLine(Payload(FALSE, "", <<ThoughtPart(ThoughtTU, SigAB)>>))>>,
      <<DataLine(Payload(FALSE, "", <<FcPart(FcStr("Read", "c1", <<"{">>, TRUE), <<>>)>>))>>,
      <<DataLine(Payload(FALSE, "", <<FcPart(FcStr("Read", "c1", <<"}">>, FALSE), <<>>)>>))>>,
      <<DataLine(Payload(FALSE, "",
            <<FcPart(FcObj("Grep", "c1", Obj1("query", StrVal("foo"))), SigA)>>))>>,
      <<DataLine(Payload(FALSE, "",
            <<FcPart(FcObj("Read", "", Obj1("path", StrVal("x"))), <<>>)>>))>>,
      UsageOnlyChunk,
      <<DataLine(Payload(FALSE, "", <<TextPart(McpHead)>>))>>,
      <<DataLine(Payload(FALSE, "", <<TextPart(McpFull)>>))>>,
      <<InvalidLine, DataLine(Payload(TRUE, "STOP", <<>>))>>,
      <<DataLine(Payload(FALSE, "MAX_TOKENS", <<TextPart(TxtHi)>>))>> }

RescueResponses ==
    { [throws |-> TRUE, payload |-> Payload(FALSE, "", <<>>)],
      [throws |-> FALSE, payload |-> Payload(TRUE, "", <<>>)],
      [throws |-> FALSE, payload |-> Payload(TRUE, "STOP", <<TextPart(TxtHi)>>)],
      [throws |-> FALSE, payload |->
          Payload(TRUE, "STOP", <<FcPart(FcObj("Grep", "c1", Obj1("query", StrVal("foo"))),
                                         <<>>)>>)] }

\* sessionHash "" is a request from which no session hash could be made
Configs ==
    { [vendor |-> "antigravity", wantsThinkingBlockFirst |-> FALSE, plannedToolName |-> "",
       sessionHash |-> "s1"],
      [vendor |-> "antigravity", wantsThinkingBlockFirst |-> FALSE, plannedToolName |-> "",
       sessionHash |-> ""],
      [vendor |-> "antigravity", wantsThinkingBlockFirst |-> TRUE, plannedToolName |-> "Grep",
       sessionHash |-> "s1"],
      [vendor |-> "gemini-cli", wantsThinkingBlockFirst |-> FALSE, plannedToolName |-> "",
       sessionHash |-> "s1"] }

-----------------------------------------------------------------------------
(* The transport while no request() call is modelled                       *)

NoError == [status |-> 0, code |-> "", reason |-> "", retryDelayMs |-> 0,
            text |-> {}, retryAfter |-> 0]

IdleRequest ==
    [ pc |-> "idle", id |-> 0, model |-> "", index |-> 0, fallbackCount |-> 0,
      retriedAfterDelay |-> FALSE, inCatch |-> FALSE, waitMs |-> 0, aborted |-> FALSE,
      httpCalls |-> 0, fallbacks |-> <<>>, error |-> NoError ]

DefaultEnv ==
    [ maxFallbacksPerRequest |-> DEFAULT_MAX_FALLBACKS_PER_REQUEST,
      modelCapacityCooldownMs |-> DEFAULT_MODEL_CAPACITY_COOLDOWN_MS,
      modelUnavailableCooldownMs |-> DEFAULT_MODEL_UNAVAILABLE_COOLDOWN_MS,
      endpoints |-> 3 ]

\* the upstream model names request() is called for
Models == {"claude-a", "gemini-b"}

\* no entry under a key of the cooldown map
NoCooldown == [untilMs |-> 0, reason |-> ""]

TransportIdle ==
    /\ now = 0
    /\ modelUnavailableCooldowns = [m \in Models |-> NoCooldown]
    /\ rq = IdleRequest
    /\ env = DefaultEnv

-----------------------------------------------------------------------------
(* The retry controller while no handler call is modelled                  *)

Accounts == {"acc1", "acc2"}

\* no entry under a key of the strike map
NoStrike == [count |-> 0, lastAtMs |-> 0]

NoUpstreamError == [statusCode |-> 0, schemaText |-> FALSE, reason |-> "", retryDelayMs |-> 0]

NoRequestData == [contents |-> "", generationConfig |-> "", tools |-> "", toolConfig |-> ""]

IdleHandler ==
    [ pc |-> "idle", id |-> 0, vendor |-> "", accountId |-> "",
      requestData |-> NoRequestData, error |-> NoUpstreamError, resetsInSeconds |-> 0,
      sent |-> <<>>, marked |-> <<>>, surfaced |-> NoUpstreamError ]

ControllerIdle ==
    /\ antigravityQuotaStrikesByAccountId = [a \in Accounts |-> NoStrike]
    /\ ctl = IdleHandler

-----------------------------------------------------------------------------
(* The signature cache before anything is cached                           *)

\* a signature is known by its content (tag) and its length; NoSig is ''/null
Sig(tag, len) == [tag |-> tag, len |-> len]
NoSig == Sig("", 0)

ToolIds == {"tool1"}
SessionIds == {"s1"}
TextHashes == {"h1"}
CachedSignatures == {Sig("a", 50), Sig("b", 50), Sig("c", 80)}

\* no entry under a key
NoEntry == [signature |-> NoSig, timestamp |-> 0]
NoFamilyEntry == [modelFamily |-> "", timestamp |-> 0]

\* nothing called yet, or a call that returns nothing and replaces nothing;
\* signature and modelFamily are the value returned (NoSig and "" for null),
\* deleted says that the call deleted an expired entry, replaced is the entry
\* an insert overwrote
NoCall == [fn |-> "", sessionId |-> "", key |-> "", signature |-> NoSig,
           modelFamily |-> "", deleted |-> FALSE, replaced |-> NoEntry]

CacheEmpty ==
    /\ toolSignatureCache = [k \in ToolIds |-> NoEntry]
    /\ modelFamilyCache = [k \in CachedSignatures |-> NoFamilyEntry]
    /\ sessionLatestSignatureCache = [k \in SessionIds |-> NoEntry]
    /\ signatureCache = [k \in SessionIds |-> [h \in TextHashes |-> NoEntry]]
    /\ lastCall = NoCall

-----------------------------------------------------------------------------
(* The parts that are checked on their own, before they are given an input *)

CapKeys == {"k1", "k2", "k3", "k4"}
NoInsert == [key |-> "", evicted |-> {}]

CapIdle ==
    /\ capCache = [k \in CapKeys |-> NoEntry]
    /\ capIn = [path |-> "", limit |-> 0]
    /\ capLast = NoInsert

\* no request is being normalized
NormIdle ==
    nz = [stage |-> "idle", vendor |-> "", strategy |-> "none", client |-> <<>>,
          merged |-> <<>>, prepared |-> <<>>, normalized |-> <<>>, again |-> <<>>]

\* no request is being translated
TranslatorIdle ==
    tr = [stage |-> "idle", vendor |-> "", thinkingEnabled |-> FALSE, sessionId |-> "",
          targetModel |-> <<>>, messages |-> <<>>, families |-> <<>>, sessions |-> <<>>,
          stripThinking |-> FALSE, contents |-> <<>>, back |-> <<>>]

\* no function is being called on its own
FunctionsIdle == fcall = [fn |-> "", returned |-> FALSE]

PureIdle ==
    /\ CapIdle
    /\ NormIdle
    /\ TranslatorIdle
    /\ FunctionsIdle

-----------------------------------------------------------------------------
(* The state machine of one streaming request                              *)

InitStream ==
    [ emittedText |-> <<>>, emittedThinking |-> <<>>, emittedThoughtSignature |-> <<>>,
      finished |-> FALSE, usageMetadata |-> FALSE, finishReason |-> "",
      emittedAnyToolUse |-> FALSE, invalidSseLines |-> 0,
      rescueAttempted |-> FALSE, forcedRescueAttempted |-> FALSE,
      emittedToolCallKeys |-> {}, pendingToolCallsById |-> <<>>,
      mcpXmlBuffer |-> <<>>, inMcpXml |-> FALSE,
      currentIndex |-> -1, currentBlockType |-> "none",
      activityTimeout |-> FALSE, firstByteTimeout |-> FALSE,
      receivedAnyUpstreamBytes |-> FALSE, aborted |-> FALSE,
      rescuedContent |-> <<>>, rescueCalls |-> <<>>, signatureCacheCalls |-> <<>>,
      headersSent |-> FALSE, jsonBody |-> FALSE, out |-> <<>>, resEndCalls |-> <<>> ]

Init ==
    /\ st = InitStream
    /\ cfg \in Configs
    /\ up = "connecting"
    /\ clientClosed = FALSE
    /\ pc = "none"
    /\ nChunks = 0
    /\ usageOnly = TRUE
    /\ TransportIdle
    /\ ControllerIdle
    /\ CacheEmpty
    /\ PureIdle

\* an async function reached its next await (or returned): r = [s, pc]
Resume(r) ==
    /\ st' = r.s
    /\ pc' = r.pc

\* startStream resolved: the SSE response is started and the callbacks registered
StartStreamOk ==
    /\ up = "connecting"
    /\ ~st.aborted
    /\ st' = startSse(st)
    /\ up' = "open"
    /\ UNCHANGED <<cfg, clientClosed, pc, nChunks, usageOnly>>
    /\ UNCHANGED <<transportVars, controllerVars, cacheVars, pureVars>>

\* startStream rejected: the catch block answers
StartStreamFail ==
    /\ up = "connecting"
    /\ st' = catchBlock(st)
    /\ up' = "failed"
    /\ UNCHANGED <<cfg, clientClosed, pc, nChunks, usageOnly>>
    /\ UNCHANGED <<transportVars, controllerVars, cacheVars, pureVars>>

UpstreamData ==
    /\ up = "open"
    /\ nChunks < MaxChunks
    /\ \E lines \in Chunks :
          /\ st' = onData(st, lines)
          /\ usageOnly' = (usageOnly /\ lines = UsageOnlyChunk)
    /\ nChunks' = nChunks + 1
    /\ UNCHANGED <<cfg, up, clientClosed, pc>>
    /\ UNCHANGED <<transportVars, controllerVars, cacheVars, pureVars>>

UpstreamEnd ==
    /\ up = "open"
    /\ Resume(onEnd(st))
    /\ up' = "ended"
    /\ UNCHANGED <<cfg, clientClosed, nChunks, usageOnly>>
    /\ UNCHANGED <<transportVars, controllerVars, cacheVars, pureVars>>

UpstreamError ==
    /\ up = "open"
    /\ st' = onError(st)
    /\ up' = "errored"
    /\ UNCHANGED <<cfg, clientClosed, pc, nChunks, usageOnly>>
    /\ UNCHANGED <<transportVars, controllerVars, cacheVars, pureVars>>

\* whether abort() called now can emit 'error' on the stream from inside the call
SyncChoices(s) == IF up = "open" /\ ~s.aborted THEN BOOLEAN ELSE {FALSE}

\* the stream has emitted its 'error': nothing more comes from it
Errored(sync) == up' = IF sync THEN "errored" ELSE up

ActivityTimeout ==
    /\ st.activityTimeout
    /\ \E sync \in SyncChoices(st) :
          /\ st' = activityTimeoutFired(st, sync /\ ~st.finished)
          /\ Errored(sync /\ ~st.finished)
    /\ UNCHANGED <<cfg, clientClosed, pc, nChunks, usageOnly>>
    /\ UNCHANGED <<transportVars, controllerVars, cacheVars, pureVars>>

FirstByteTimeout ==
    /\ st.firstByteTimeout
    /\ \E sync \in SyncChoices(st) :
          /\ st' = firstByteTimeoutFired(st, sync /\ ~st.finished /\ ~st.receivedAnyUpstreamBytes)
          /\ Errored(sync /\ ~st.finished /\ ~st.receivedAnyUpstreamBytes)
    /\ UNCHANGED <<cfg, clientClosed, pc, nChunks, usageOnly>>
    /\ UNCHANGED <<transportVars, controllerVars, cacheVars, pureVars>>

\* req.on('close')
ClientClose ==
    /\ ~clientClosed
    /\ clientClosed' = TRUE
    /\ \E sync \in SyncChoices(st) :
          /\ st' = abort(st, sync)
          /\ Errored(sync)
    /\ UNCHANGED <<cfg, pc, nChunks, usageOnly>>
    /\ UNCHANGED <<transportVars, controllerVars, cacheVars, pureVars>>

RescueLevel1Return ==
    /\ pc = "rescue1"
    /\ \E resp \in RescueResponses : Resume(rescueLevel1Returned(st, resp))
    /\ UNCHANGED <<cfg, up, clientClosed, nChunks, usageOnly>>
    /\ UNCHANGED <<transportVars, controllerVars, cacheVars, pureVars>>

RescueBackoff ==
    /\ pc = "backoff"
    /\ Resume(rescueBackoffDone(st))
    /\ UNCHANGED <<cfg, up, clientClosed, nChunks, usageOnly>>
    /\ UNCHANGED <<transportVars, controllerVars, cacheVars, pureVars>>

RescueLevel2Return ==
    /\ pc = "rescue2"
    /\ \E resp \in RescueResponses : Resume(rescueLevel2Returned(st, resp))
    /\ UNCHANGED <<cfg, up, clientClosed, nChunks, usageOnly>>
    /\ UNCHANGED <<transportVars, controllerVars, cacheVars, pureVars>>

Next ==
    \/ StartStreamOk
    \/ StartStreamFail
    \/ UpstreamData
    \/ UpstreamEnd
    \/ UpstreamError
    \/ ActivityTimeout
    \/ FirstByteTimeout
    \/ ClientClose
    \/ RescueLevel1Return
    \/ RescueBackoff
    \/ RescueLevel2Return

Spec == Init /\ [][Next]_vars

-----------------------------------------------------------------------------
(* Reading the client's side of the response                               *)

Positions(out, type) == {i \in 1..Len(out) : out[i].type = type}
Count(out, type) == Cardinality(Positions(out, type))

IsStart(e, kind) == e.type = "content_block_start" /\ e.kind = kind
IsDelta(e, kind) == e.type = "content_block_delta" /\ e.kind = kind

\* the last two events are message_delta (with a stop_reason) and message_stop
EndsWithTermination(out) ==
    /\ Len(out) >= 2
    /\ out[Len(out) - 1].type = "message_delta"
    /\ out[Len(out) - 1].kind \in {"end_turn", "tool_use", "max_tokens"}
    /\ out[Len(out)].type = "message_stop"

\* finalize is suspended at one of the awaits of the rescue
RescueRunning == pc \in {"rescue1", "backoff", "rescue2"}

\* the termination sequences written so far
Terminations(s) == <<Count(s.out, "message_delta"), Count(s.out, "message_stop")>>

-----------------------------------------------------------------------------
(* C1..C5: termination of the stream                                       *)

\* C1: under every interleaving of the data, end and error callbacks and the
\* two watchdogs, message_delta and message_stop are each written at most
\* once, only by a finalize that set finished itself: once finished is set
\* by another callback, no step writes a termination sequence.
C1_TerminationAtMostOnce ==
    /\ [](/\ Count(st.out, "message_delta") <= 1
          /\ Count(st.out, "message_stop") <= 1
          /\ (Count(st.out, "message_stop") = 1 => st.finished))
    /\ [][st.finished /\ ~RescueRunning => Terminations(st') = Terminations(st)]_vars

\* C1 witness: a watchdog had set finished, the upstream 'end' callback then
\* ran, and no termination sequence was written.
C1_EndAfterWatchdog ==
    /\ up = "ended"
    /\ st.finished
    /\ st.resEndCalls \in {<<"activity">>, <<"firstbyte">>}
    /\ Terminations(st) = <<0, 0>>

\* C2 as stated: every response that has sent message_start and was ended,
\* whatever the termination path, ends with message_delta + message_stop.
C2_EveryPathEndsWithMessageStop ==
    (st.resEndCalls # <<>> /\ Count(st.out, "message_start") = 1)
        => EndsWithTermination(st.out)

\* C2 amended: the response is ended once.  Ended by finalize (upstream end,
\* with or without finishReason) it ends with one message_delta carrying a
\* stop_reason and one message_stop; ended by the error callback or by a
\* watchdog it ends with an error event and carries no message_delta and no
\* message_stop.
C2_TerminationByPath ==
    (st.resEndCalls # <<>> /\ ~st.jsonBody) =>
        /\ Len(st.resEndCalls) = 1
        /\ st.out[1].type = "message_start"
        /\ Count(st.out, "message_start") = 1
        /\ (st.resEndCalls[1] = "finalize" =>
                /\ EndsWithTermination(st.out)
                /\ Terminations(st) = <<1, 1>>
                /\ Count(st.out, "error") = 0)
        /\ (st.resEndCalls[1] # "finalize" =>
                /\ st.out[Len(st.out)].type = "error"
                /\ Terminations(st) = <<0, 0>>)

\* C2 witness: the upstream stream failed after text had been sent and the
\* response was ended by the error callback.
C2_EndedByErrorCallback ==
    /\ st.resEndCalls = <<"error">>
    /\ st.emittedText # <<>>
    /\ up = "errored"

\* C3: a failure is answered by a JSON body only when nothing of the SSE
\* response was sent, by an SSE error event only after message_start, never
\* by both, and no error event follows message_stop.
C3_JsonOrSseErrorNeverAfterStop ==
    /\ st.jsonBody => (st.out = <<>> /\ st.resEndCalls = <<"json">>)
    /\ \A i \in Positions(st.out, "error") :
          /\ ~st.jsonBody
          /\ i > 1
          /\ st.out[1].type = "message_start"
          /\ \A j \in Positions(st.out, "message_stop") : i < j

\* C3 witness: the request was answered by a JSON error body.
C3_JsonErrorBody ==
    /\ st.jsonBody
    /\ up = "failed"

\* C4: when the no-activity watchdog fires on an unfinished stream it sets
\* finished before aborting, so that exactly one error event, of type
\* overloaded_error, is written and the response is ended once; the error
\* callback run by the abort writes nothing.
C4_ActivityWatchdogWritesOneError ==
    ("activity" \in {st.resEndCalls[i] : i \in 1..Len(st.resEndCalls)}) =>
        /\ st.finished
        /\ st.aborted
        /\ st.resEndCalls = <<"activity">>
        /\ Count(st.out, "error") = 1
        /\ st.out[Len(st.out)].type = "error"
        /\ st.out[Len(st.out)].kind = "overloaded_error"

\* C4 witness: the watchdog fired and the abort it made ran the error
\* callback of the upstream stream.
C4_WatchdogAbortRanErrorCallback ==
    /\ st.resEndCalls = <<"activity">>
    /\ up = "errored"
    /\ ~clientClosed

\* C5 as stated: once the client has closed the connection the abort signal
\* is raised and no later step writes an SSE event.
C5_NoWriteAfterClientClose ==
    /\ [](clientClosed => st.aborted)
    /\ [][clientClosed' => st'.out = st.out]_vars

-----------------------------------------------------------------------------
(* C6..C8: content blocks                                                  *)

BlockEvents == {"content_block_start", "content_block_delta", "content_block_stop"}

\* the block of index n is open just before position j
OpenBefore(out, n, j) ==
    \E i \in 1..(j - 1) :
        /\ out[i].type = "content_block_start"
        /\ out[i].index = n
        /\ \A k \in (i + 1)..(j - 1) :
              ~(out[k].type = "content_block_stop" /\ out[k].index = n)

\* C6: the k-th content_block_start carries index k-1 (indices start at 0,
\* grow by one and are never reused), and every content_block_delta and
\* content_block_stop is written for an index whose block is open, so that
\* each index sees start, then deltas, then one stop.
C6_BlockIndicesAndOrder ==
    \A j \in 1..Len(st.out) :
        /\ st.out[j].type = "content_block_start" =>
              st.out[j].index =
                  Cardinality({i \in 1..(j - 1) : st.out[i].type = "content_block_start"})
        /\ st.out[j].type \in {"content_block_delta", "content_block_stop"} =>
              OpenBefore(st.out, st.out[j].index, j)
        /\ st.out[j].type \notin BlockEvents => st.out[j].index = -1

\* C6 witness: a thinking, a text and a tool_use block were written and
\* closed, and the stream was terminated.
C6_ThreeBlocksWritten ==
    /\ Count(st.out, "content_block_start") >= 3
    /\ Count(st.out, "content_block_stop") = Count(st.out, "content_block_start")
    /\ \E i, j, k \in 1..Len(st.out) :
          IsStart(st.out[i], "thinking") /\ IsStart(st.out[j], "text")
              /\ IsStart(st.out[k], "tool_use")
    /\ Count(st.out, "message_stop") = 1

\* a thinking block is started at k although the stream had switched from
\* a thinking block (started at i) to a block of another type (at j)
ThinkingResumed(out, i, j, k) ==
    /\ i < j /\ j < k
    /\ IsStart(out[i], "thinking")
    /\ out[j].type = "content_block_start" /\ out[j].kind # "thinking"
    /\ IsStart(out[k], "thinking")

\* C7 as stated: once the stream has switched from a thinking block to a
\* text or tool_use block, no further thinking block is started, whatever
\* thought text or signature later chunks carry.
C7_NoThinkingAfterSwitchingAway ==
    \A i, j, k \in Positions(st.out, "content_block_start") :
        ~ThinkingResumed(st.out, i, j, k)

\* the function-call ids of the backend (buildToolUseId makes the others)
BackendIds(out) ==
    {out[i].id : i \in {j \in 1..Len(out) : IsStart(out[j], "tool_use")}} \ {buildToolUseId}

\* the tool_use block of call id is in out, before every message_delta
EmittedBeforeMessageDelta(out, id) ==
    \E i \in 1..Len(out) :
        /\ IsStart(out[i], "tool_use") /\ out[i].id = id
        /\ \A j \in Positions(out, "message_delta") : i < j

\* C8: for every backend call id at most one tool_use block is written; the
\* start, input_json_delta and stop of a tool_use block are adjacent; and
\* when the upstream stream ends, every call still pending is written before
\* message_delta.
C8_OneToolUsePerCallId ==
    /\ [](/\ \A id \in BackendIds(st.out) :
                Cardinality({i \in 1..Len(st.out) :
                                IsStart(st.out[i], "tool_use") /\ st.out[i].id = id}) = 1
          /\ \A i \in 1..Len(st.out) :
                IsStart(st.out[i], "tool_use") =>
                    /\ i + 2 <= Len(st.out)
                    /\ IsDelta(st.out[i + 1], "input_json_delta")
                    /\ st.out[i + 1].index = st.out[i].index
                    /\ st.out[i + 2].type = "content_block_stop"
                    /\ st.out[i + 2].index = st.out[i].index
          /\ (Count(st.out, "message_delta") > 0 => st.pendingToolCallsById = <<>>))
    /\ [][(up = "open" /\ up' = "ended" /\ ~st.finished) =>
             \A n \in 1..Len(st.pendingToolCallsById) :
                 EmittedBeforeMessageDelta(st'.out, st.pendingToolCallsById[n].id)]_vars

\* C8 witness: call c1 of Read came in two events with partial arguments
\* ("{", then "}") and the data callback wrote its one tool_use block when
\* the joined text parsed, before the stream ended.
C8_PartialArgumentsJoined ==
    /\ ~st.finished
    /\ st.pendingToolCallsById = <<>>
    /\ \E i \in 1..Len(st.out) :
          /\ IsStart(st.out[i], "tool_use")
          /\ st.out[i].id = "c1"
          /\ st.out[i].name = "Read"

-----------------------------------------------------------------------------
(* C9, C10: the upstream stream ends without a finishReason                *)

\* text, thought text or a tool_use block has been written to the client
ContentEmitted(out) ==
    \E i \in 1..Len(out) :
        \/ IsDelta(out[i], "text_delta")
        \/ IsDelta(out[i], "thinking_delta")
        \/ IsStart(out[i], "tool_use")

HasToolUse(out) == \E i \in 1..Len(out) : IsStart(out[i], "tool_use")

StopReason(out) == out[Len(out) - 1].kind

\* C9: when the 'end' callback runs finalize on a stream that has no
\* finishReason but has sent text, thought text or a tool_use block, no rescue
\* request is made and the same step completes the stream with message_delta
\* and message_stop, stop_reason tool_use if a tool_use block was written and
\* end_turn otherwise.
C9_ContentWithoutFinishReasonCompletes ==
    [][(/\ up = "open" /\ up' = "ended"
        /\ ~st.finished
        /\ st.finishReason = ""
        /\ ContentEmitted(st.out))
       => /\ st'.rescueCalls = <<>>
          /\ ~st'.rescueAttempted
          /\ pc' = "done"
          /\ EndsWithTermination(st'.out)
          /\ Terminations(st') = <<1, 1>>
          /\ StopReason(st'.out) = IF HasToolUse(st'.out) THEN "tool_use" ELSE "end_turn"
          /\ Count(st'.out, "error") = 0]_vars

\* C9 witness: an Antigravity stream that had sent only thought text ended
\* without finishReason and was completed with end_turn, without a rescue.
C9_ThinkingOnlyCompleted ==
    /\ cfg.vendor = "antigravity"
    /\ pc = "done"
    /\ st.finishReason = ""
    /\ st.emittedThinking # <<>>
    /\ st.emittedText = <<>>
    /\ ~st.emittedAnyToolUse
    /\ st.rescueCalls = <<>>
    /\ EndsWithTermination(st.out)
    /\ StopReason(st.out) = "end_turn"

\* the upstream stream delivered usageMetadata and nothing else, ended, and
\* finalize has completed the response
UsageOnlyStreamCompleted ==
    /\ usageOnly
    /\ nChunks >= 1
    /\ pc = "done"

TextDeltas(out) == {i \in 1..Len(out) : IsDelta(out[i], "text_delta")}

\* C10 as stated: a stream that delivers only usageMetadata and ends without
\* finishReason gives the client a non-empty text block (read widely: the
\* fallback text or a rescued text), stop_reason end_turn and exactly one
\* message_stop, after a rescue was attempted (read widely: by the vendor
\* that has a rescue).
C10_UsageOnlyStreamGetsFallbackText ==
    UsageOnlyStreamCompleted =>
        /\ \E i \in TextDeltas(st.out) : st.out[i].text # <<>>
        /\ EndsWithTermination(st.out)
        /\ StopReason(st.out) = "end_turn"
        /\ Count(st.out, "message_stop") = 1
        /\ (cfg.vendor = "antigravity" => st.rescueCalls # <<>>)

\* C10 amended: such a stream is completed with exactly one message_delta and
\* one message_stop.  For Antigravity the rescue request is made first (and
\* the forced one after it, if made), before any text or tool_use is written;
\* for another vendor no rescue request is made.  If a rescue response gave a
\* tool_use, it is written and stop_reason is tool_use; otherwise stop_reason
\* is end_turn and one non-empty text block is written: the rescued text, or
\* the fallback text when there is none.
C10_UsageOnlyStreamLadder ==
    /\ RescueRunning =>
          /\ ~ContentEmitted(st.out)
          /\ Terminations(st) = <<0, 0>>
          /\ st.rescueCalls # <<>>
    /\ UsageOnlyStreamCompleted =>
          /\ EndsWithTermination(st.out)
          /\ Terminations(st) = <<1, 1>>
          /\ (cfg.vendor = "antigravity" =>
                 st.rescueCalls \in {<<"level1">>, <<"level1", "level2">>})
          /\ (cfg.vendor # "antigravity" => st.rescueCalls = <<>>)
          /\ (HasToolUse(st.out) =>
                 /\ StopReason(st.out) = "tool_use"
                 /\ TextDeltas(st.out) = {})
          /\ (~HasToolUse(st.out) =>
                 /\ StopReason(st.out) = "end_turn"
                 /\ Cardinality(TextDeltas(st.out)) = 1
                 /\ \A i \in TextDeltas(st.out) :
                       /\ st.out[i].text # <<>>
                       /\ \/ st.out[i].text = FallbackText
                          \/ /\ st.rescueCalls # <<>>
                             /\ st.out[i].text = rescuedTextOf(st.rescuedContent))

\* C10 witness: both rescue requests of an Antigravity stream gave nothing
\* and the fallback text was written.
C10_FallbackAfterFailedRescue ==
    /\ UsageOnlyStreamCompleted
    /\ st.usageMetadata
    /\ st.rescueCalls = <<"level1", "level2">>
    /\ st.emittedText = FallbackText
    /\ \E i \in TextDeltas(st.out) : st.out[i].text = FallbackText

-----------------------------------------------------------------------------
(* C11: the client-visible sequence of a plain text stream                 *)

\* the only chunk delivered was parts [{text: "Hello"}] with no finishReason,
\* the upstream then ended, and neither a watchdog nor the client aborted
HelloStreamEnded ==
    /\ ~cfg.wantsThinkingBlockFirst
    /\ nChunks = 1
    /\ st.emittedText = TxtHello
    /\ st.finishReason = ""
    /\ up = "ended"
    /\ ~st.aborted

\* C11: for a streaming request without thinking whose upstream sends one
\* chunk with parts [{text: "Hello"}] and ends without finishReason, the
\* events written are exactly message_start, content_block_start(text, 0),
\* content_block_delta(text_delta "Hello", 0), content_block_stop(0),
\* message_delta(end_turn), message_stop, and the response is ended once.
C11_HelloStreamSequence ==
    HelloStreamEnded =>
        /\ st.out = << Ev("message_start", -1, "", <<>>, "", "", <<>>),
                       Ev("content_block_start", 0, "text", <<>>, "", "", <<>>),
                       Ev("content_block_delta", 0, "text_delta", TxtHello, "", "", <<>>),
                       Ev("content_block_stop", 0, "", <<>>, "", "", <<>>),
                       Ev("message_delta", -1, "end_turn", <<>>, "", "", <<>>),
                       Ev("message_stop", -1, "", <<>>, "", "", <<>>) >>
        /\ st.resEndCalls = <<"finalize">>
        /\ st.rescueCalls = <<>>

\* C11 witness: the Hello stream has ended and its six events are written.
C11_HelloStreamCompleted ==
    /\ HelloStreamEnded
    /\ Len(st.out) = 6
    /\ st.out[3].text = TxtHello

-----------------------------------------------------------------------------
(* Part 2: antigravityClient.request()                                     *)

CeilDiv(a, b) == (a + b - 1) \div b
Max(a, b) == IF a >= b THEN a ELSE b
Min(a, b) == IF a <= b THEN a ELSE b

\* faulty variant of getModelCooldownInfo: an expired entry is left in the map
getModelCooldownInfoKeepsExpired(cd, model) ==
    IF cd[model].untilMs = 0 \/ cd[model].untilMs - now <= 0
    THEN [remainingMs |-> 0, reason |-> "", map |-> cd]
    ELSE [remainingMs |-> cd[model].untilMs - now, reason |-> cd[model].reason, map |-> cd]

\* getModelCooldownInfo: [remainingMs, reason, map], map being the cooldown
\* map after the read (an expired entry is deleted by the read)
getModelCooldownInfo(cd, model) ==
    IF cd[model].untilMs = 0
    THEN [remainingMs |-> 0, reason |-> "", map |-> cd]
    ELSE IF cd[model].untilMs - now <= 0
    THEN [remainingMs |-> 0, reason |-> "", map |-> [cd EXCEPT ![model] = NoCooldown]]
    ELSE [remainingMs |-> cd[model].untilMs - now, reason |-> cd[model].reason, map |-> cd]

setModelCooldown(cd, model, cooldownMs, reason) ==
    IF cooldownMs > 0
    THEN [cd EXCEPT ![model] = [untilMs |-> now + cooldownMs, reason |-> reason]]
    ELSE cd

\* the synthetic 429 thrown by request() while the model is cooling
cooldownError(info) ==
    [ status |-> 429, code |-> "ANTIGRAVITY_MODEL_COOLDOWN", reason |-> info.reason,
      retryDelayMs |-> 0, text |-> {},
      retryAfter |-> Max(1, CeilDiv(info.remainingMs, 1000)) ]

\* the substrings of a lower-cased error body that request() looks for
NoCapacityText == "no capacity"
ModelUnavailableText == "requested model is currently unavailable"
NotFoundText == "not found"

isRetryable(error) ==
    IF error.code \in {"ECONNRESET", "ETIMEDOUT"} THEN TRUE
    ELSE IF error.status = 429 THEN TRUE
    ELSE IF error.status \in {400, 404}
    THEN error.text \cap {ModelUnavailableText, NotFoundText} # {}
    ELSE FALSE

isQuotaOrRateLimited(error) ==
    error.status = 429 /\ error.reason \in {"QUOTA_EXHAUSTED", "RATE_LIMIT_EXCEEDED"}

\* faulty variant of canFallback: the reason of a 429 is not looked at
canFallbackWhateverReason(r, error) ==
    /\ r.index + 1 < env.endpoints
    /\ r.fallbackCount < env.maxFallbacksPerRequest
    /\ isRetryable(error)

canFallback(r, error) ==
    /\ r.index + 1 < env.endpoints
    /\ ~isQuotaOrRateLimited(error)
    /\ r.fallbackCount < env.maxFallbacksPerRequest
    /\ isRetryable(error)

looksLikeCapacityExhausted(error) ==
    \/ error.reason = "MODEL_CAPACITY_EXHAUSTED"
    \/ error.reason = "" /\ NoCapacityText \in error.text

\* error.response.headers['retry-after'] = ..., when the error has a response
withRetryAfter(error, ms) ==
    IF error.status # 0 THEN [error EXCEPT !.retryAfter = Max(1, CeilDiv(ms, 1000))] ELSE error

\* "throw error" out of request()
thrown(r, error, cd) == [r |-> [r EXCEPT !.pc = "thrown", !.error = error], cd |-> cd]

\* the block "模型不可用" of the catch: the unavailable cooldown, then throw
unavailableThenThrow(r, error, cd) ==
    IF ModelUnavailableText \in error.text
    THEN thrown(r, error,
                setModelCooldown(cd, r.model,
                                 IF error.retryDelayMs > 0 THEN error.retryDelayMs
                                 ELSE env.modelUnavailableCooldownMs,
                                 "model_unavailable"))
    ELSE thrown(r, error, cd)

\* faulty variant of requestCatch: the unavailable cooldown whatever the status
requestCatchAnyStatus(r, error, cd) == unavailableThenThrow(r, error, cd)

\* the catch of "return await attemptRequest()" in request(): [r, cd]
requestCatch(r, error, cd) ==
    IF error.status = 429 /\ ~r.aborted
    THEN IF isQuotaOrRateLimited(error)
         THEN unavailableThenThrow(r,
                  IF error.retryDelayMs > 0 THEN withRetryAfter(error, error.retryDelayMs)
                  ELSE error, cd)
         ELSE IF looksLikeCapacityExhausted(error)
         THEN IF ~r.retriedAfterDelay
              THEN \* wait boundedDelayMs, then "return await attemptRequest()"
                   [r |-> [r EXCEPT !.pc = "waiting", !.retriedAfterDelay = TRUE,
                                    !.inCatch = TRUE,
                                    !.waitMs = Min(IF error.retryDelayMs > 0
                                                   THEN error.retryDelayMs ELSE 2000,
                                                   10000)],
                    cd |-> cd]
              ELSE Let(Max(env.modelCapacityCooldownMs, error.retryDelayMs),
                       LAMBDA cooldownMs :
                       unavailableThenThrow(r, withRetryAfter(error, cooldownMs),
                           setModelCooldown(cd, r.model, cooldownMs,
                                            "MODEL_CAPACITY_EXHAUSTED")))
         ELSE unavailableThenThrow(r, error, cd)
    ELSE thrown(r, error, cd)

\* an error thrown by attemptRequest() leaves request(): through the catch
\* when attemptRequest was called in the try block, directly when it was
\* called from inside the catch block
attemptThrew(r, error, cd) ==
    IF r.inCatch THEN thrown(r, error, cd) ELSE requestCatch(r, error, cd)

\* the catch inside the endpoint loop of attemptRequest(): [r, cd]
attemptFailed(r, error, cd) ==
    IF canFallback(r, error)
    THEN [r |-> [r EXCEPT !.fallbackCount = @ + 1, !.index = @ + 1,
                          !.fallbacks = Append(@, <<error.status, error.reason>>)],
          cd |-> cd]
    ELSE attemptThrew(r, error, cd)

\* request() up to the first axios call
requestEntry(model, id, cd) ==
    Let(getModelCooldownInfo(cd, model),
        LAMBDA info :
        IF info.remainingMs > 0
        THEN thrown([IdleRequest EXCEPT !.id = id, !.model = model],
                    cooldownError(info), info.map)
        ELSE [r |-> [IdleRequest EXCEPT !.id = id, !.model = model, !.pc = "attempt"],
              cd |-> info.map])

(* Inputs *)

Err(status, code, reason, retryDelayMs, text) ==
    [status |-> status, code |-> code, reason |-> reason, retryDelayMs |-> retryDelayMs,
     text |-> text, retryAfter |-> 0]

ErrorResponses ==
    { Err(0, "ECONNRESET", "", 0, {}),
      Err(429, "", "QUOTA_EXHAUSTED", 1500, {}),
      Err(429, "", "RATE_LIMIT_EXCEEDED", 0, {}),
      Err(429, "", "MODEL_CAPACITY_EXHAUSTED", 1500, {}),
      Err(429, "", "MODEL_CAPACITY_EXHAUSTED", 20000, {}),
      Err(429, "", "", 0, {NoCapacityText}),
      Err(429, "", "", 0, {ModelUnavailableText}),
      Err(429, "", "", 1500, {ModelUnavailableText}),
      Err(429, "", "RESOURCE_EXHAUSTED", 0, {}),
      Err(400, "", "", 0, {ModelUnavailableText}),
      Err(404, "", "", 0, {NotFoundText}),
      Err(400, "", "", 0, {}),
      Err(500, "", "", 0, {}) }

\* ANTIGRAVITY_MAX_FALLBACKS_PER_REQUEST unset, 0 or 2, with the three default
\* endpoints; ANTIGRAVITY_API_URL set without fallback: one endpoint
Envs ==
    { [DefaultEnv EXCEPT !.maxFallbacksPerRequest = n] : n \in {0, 1, 2} }
      \cup { [DefaultEnv EXCEPT !.endpoints = 1] }

Ticks == {20000, 40000}

(* The state machine of the transport *)

\* no streaming response is modelled
StreamIdle ==
    /\ st = InitStream
    /\ cfg \in {c \in Configs : c.vendor = "antigravity" /\ ~c.wantsThinkingBlockFirst
                                   /\ c.sessionHash # ""}
    /\ up = "connecting"
    /\ clientClosed = FALSE
    /\ pc = "none"
    /\ nChunks = 0
    /\ usageOnly = TRUE

InitTransport ==
    /\ StreamIdle
    /\ ControllerIdle
    /\ CacheEmpty
    /\ PureIdle
    /\ now = 0
    /\ modelUnavailableCooldowns = [m \in Models |-> NoCooldown]
    /\ rq = IdleRequest
    /\ env \in Envs

Settle(res) ==
    /\ rq' = res.r
    /\ modelUnavailableCooldowns' = res.cd

\* a caller invokes request() for a model
RequestStart ==
    /\ rq.pc \in {"idle", "returned", "thrown"}
    /\ rq.id < MaxRequests
    /\ \E model \in Models :
          Settle(requestEntry(model, rq.id + 1, modelUnavailableCooldowns))
    /\ UNCHANGED <<now, env, streamVars, controllerVars, cacheVars, pureVars>>

\* the axios call of the current endpoint resolves
HttpOk ==
    /\ rq.pc = "attempt"
    /\ rq' = [rq EXCEPT !.pc = "returned", !.httpCalls = @ + 1]
    /\ UNCHANGED <<now, modelUnavailableCooldowns, env, streamVars, controllerVars, cacheVars, pureVars>>

\* the axios call of the current endpoint rejects
HttpError ==
    /\ rq.pc = "attempt"
    /\ \E error \in ErrorResponses :
          Settle(attemptFailed([rq EXCEPT !.httpCalls = @ + 1], error,
                               modelUnavailableCooldowns))
    /\ UNCHANGED <<now, env, streamVars, controllerVars, cacheVars, pureVars>>

\* the timer of the capacity wait fires: attemptRequest() runs again
CapacityWaitDone ==
    /\ rq.pc = "waiting"
    /\ now' = now + rq.waitMs
    /\ rq' = [rq EXCEPT !.pc = "attempt", !.index = 0]
    /\ UNCHANGED <<modelUnavailableCooldowns, env, streamVars, controllerVars, cacheVars, pureVars>>

\* the caller's AbortSignal is aborted while the request is in progress
SignalAbort ==
    /\ rq.pc \in {"attempt", "waiting"}
    /\ ~rq.aborted
    /\ rq' = [rq EXCEPT !.aborted = TRUE]
    /\ UNCHANGED <<now, modelUnavailableCooldowns, env, streamVars, controllerVars, cacheVars, pureVars>>

\* time passes between two calls of request(); the locals of the call that
\* has returned or thrown are gone
Tick ==
    /\ rq.pc \in {"idle", "returned", "thrown"}
    /\ \E d \in Ticks : now + d <= MaxNow /\ now' = now + d
    /\ rq' = [IdleRequest EXCEPT !.id = rq.id]
    /\ UNCHANGED <<modelUnavailableCooldowns, env, streamVars, controllerVars, cacheVars, pureVars>>

NextTransport ==
    \/ RequestStart
    \/ HttpOk
    \/ HttpError
    \/ CapacityWaitDone
    \/ SignalAbort
    \/ Tick

SpecTransport == InitTransport /\ [][NextTransport]_vars

-----------------------------------------------------------------------------
(* C12..C14, C18: cooldown, fallback and capacity wait of request()        *)

\* this step is the entry of a new request() call
RequestEntered == rq'.id = rq.id + 1

\* request() has thrown the synthetic cooldown error
ThrewCooldown == rq.pc = "thrown" /\ rq.error.code = "ANTIGRAVITY_MODEL_COOLDOWN"

\* C12: a request() for a model whose cooldown entry is unexpired throws a
\* synthetic 429 whose retry-after is the remaining cooldown in seconds
\* (rounded up) and issues no HTTP call; a request() for a model whose entry
\* has expired removes the entry and proceeds to the first HTTP call.
C12_CooldownFailsFastUntilExpired ==
    /\ [](ThrewCooldown => rq.httpCalls = 0 /\ rq.error.status = 429)
    /\ [][RequestEntered =>
            Let(modelUnavailableCooldowns[rq'.model].untilMs,
                LAMBDA untilMs :
                IF untilMs > now
                THEN /\ rq'.pc = "thrown"
                     /\ rq'.error.status = 429
                     /\ rq'.error.code = "ANTIGRAVITY_MODEL_COOLDOWN"
                     /\ rq'.error.retryAfter * 1000 >= untilMs - now
                     /\ (rq'.error.retryAfter - 1) * 1000 < untilMs - now
                     /\ rq'.httpCalls = 0
                     /\ modelUnavailableCooldowns' = modelUnavailableCooldowns
                ELSE /\ rq'.pc = "attempt"
                     /\ modelUnavailableCooldowns' =
                            [modelUnavailableCooldowns EXCEPT ![rq'.model] = NoCooldown])]_vars

\* C12 witness: the second request() found 1500 ms of cooldown left and threw
\* the synthetic 429 with retry-after 2.
C12_FailedFastWithRetryAfter ==
    /\ ThrewCooldown
    /\ rq.id = 2
    /\ modelUnavailableCooldowns[rq.model].untilMs - now = 1500
    /\ rq.error.retryAfter = 2

\* C13: within one request() call, the pass re-run after a capacity wait
\* included, the number of fallbacks to another endpoint never exceeds the
\* configured maximum (1 when unset), and no fallback follows a 429 whose
\* reason is QUOTA_EXHAUSTED or RATE_LIMIT_EXCEEDED.
C13_FallbacksBounded ==
    /\ Len(rq.fallbacks) = rq.fallbackCount
    /\ rq.fallbackCount <= env.maxFallbacksPerRequest
    /\ rq.httpCalls <= (IF rq.retriedAfterDelay THEN 2 ELSE 1) + rq.fallbackCount
    /\ \A i \in 1..Len(rq.fallbacks) :
          ~(rq.fallbacks[i][1] = 429
              /\ rq.fallbacks[i][2] \in {"QUOTA_EXHAUSTED", "RATE_LIMIT_EXCEEDED"})

\* C13 witness: with the default maximum of 1 and three endpoints, the first
\* pass fell back once; the pass re-run after the capacity wait failed on
\* its first endpoint with a retryable 429 and threw without a fallback.
C13_NoFallbackLeftInSecondPass ==
    /\ env.maxFallbacksPerRequest = DEFAULT_MAX_FALLBACKS_PER_REQUEST
    /\ env.endpoints = 3
    /\ rq.pc = "thrown"
    /\ rq.inCatch
    /\ rq.index = 0
    /\ rq.fallbackCount = 1
    /\ rq.httpCalls = 3
    /\ rq.error.reason = "MODEL_CAPACITY_EXHAUSTED"

\* request() has waited once and the retry failed with a capacity 429
CapacityRetryFailed ==
    /\ rq.pc = "thrown"
    /\ rq.retriedAfterDelay
    /\ ~rq.aborted
    /\ rq.error.status = 429
    /\ looksLikeCapacityExhausted(rq.error)

\* C14 as stated: when the retry made after the capacity wait also fails with
\* a capacity 429, the error is thrown with a model cooldown of
\* max(capacity cooldown, advertised retry delay) recorded for the model.
C14_SecondCapacityFailureSetsCooldown ==
    CapacityRetryFailed =>
        modelUnavailableCooldowns[rq.model] =
            [untilMs |-> now + Max(env.modelCapacityCooldownMs, rq.error.retryDelayMs),
             reason |-> "MODEL_CAPACITY_EXHAUSTED"]

\* request() has thrown a 400 or 404 whose body matches the unavailable /
\* not found text
ThrewUnavailable4xx ==
    /\ rq.pc = "thrown"
    /\ rq.error.status \in {400, 404}
    /\ rq.error.text \cap {ModelUnavailableText, NotFoundText} # {}

\* C18 as stated: when request() throws a 400 or 404 matching the model
\* unavailable / not found text, the model is cooling.
C18_Unavailable4xxSetsCooldown ==
    ThrewUnavailable4xx => modelUnavailableCooldowns[rq.model].untilMs > now

\* C18 amended: a 400 or 404 matching the text is only retried on the next
\* endpoint; when request() throws it the cooldown map is left as it was.
\* The map gets a new entry only in a step in which request() throws, from
\* its first pass, a 429 whose body contains "requested model is currently
\* unavailable": the entry is for the requested model, with reason
\* model_unavailable, lasting the advertised retry delay or else the
\* configured unavailable cooldown.
C18_UnavailableCooldownOnlyOn429 ==
    /\ [][(rq.pc = "attempt" /\ rq'.pc = "thrown" /\ rq'.error.status \in {400, 404})
            => modelUnavailableCooldowns' = modelUnavailableCooldowns]_vars
    /\ [][(modelUnavailableCooldowns' # modelUnavailableCooldowns /\ ~RequestEntered)
            => /\ rq.pc = "attempt" /\ ~rq.inCatch /\ rq'.pc = "thrown"
               /\ rq'.error.status = 429
               /\ ModelUnavailableText \in rq'.error.text
               /\ modelUnavailableCooldowns' =
                    [modelUnavailableCooldowns EXCEPT ![rq.model] =
                        [untilMs |-> now + (IF rq'.error.retryDelayMs > 0
                                            THEN rq'.error.retryDelayMs
                                            ELSE env.modelUnavailableCooldownMs),
                         reason |-> "model_unavailable"]]]_vars

\* C18 witness: with one fallback allowed, both endpoints tried answered 400
\* "requested model is currently unavailable"; request() threw and the model
\* has no cooldown entry.
C18_Unavailable400ThrownWithoutCooldown ==
    /\ ThrewUnavailable4xx
    /\ rq.error.status = 400
    /\ ModelUnavailableText \in rq.error.text
    /\ rq.fallbackCount = 1
    /\ rq.fallbacks = <<<<400, "">>>>
    /\ modelUnavailableCooldowns[rq.model] = NoCooldown

-----------------------------------------------------------------------------
(* Part 3: the retry of the first upstream attempt                         *)

\* shouldRetryWithoutTools: the sanitized message contains one of the schema
\* rejection texts (error.schemaText says whether it does)
shouldRetryWithoutTools(error) == error.schemaText

\* stripToolsFromRequest: a copy of the request without tools and toolConfig
stripToolsFromRequest(requestData) ==
    [requestData EXCEPT !.tools = "", !.toolConfig = ""]

\* faulty variant of bumpAntigravityQuotaStrike: a stale count is not reset
bumpAntigravityQuotaStrikeNeverStale(strikes, accountId) ==
    Let(strikes[accountId],
        LAMBDA existing :
        [strikes EXCEPT ![accountId] =
            [count |-> Min(Len(ANTIGRAVITY_QUOTA_LOCKOUT_SECONDS), existing.count + 1),
             lastAtMs |-> now]])

\* bumpAntigravityQuotaStrike: the strike map after the bump
bumpAntigravityQuotaStrike(strikes, accountId) ==
    Let(strikes[accountId],
        LAMBDA existing :
        Let(existing.count > 0 /\ now - existing.lastAtMs <= ANTIGRAVITY_QUOTA_STRIKE_TTL_MS,
            LAMBDA isFresh :
            [strikes EXCEPT ![accountId] =
                [count |-> Min(Len(ANTIGRAVITY_QUOTA_LOCKOUT_SECONDS),
                               (IF isFresh THEN existing.count ELSE 0) + 1),
                 lastAtMs |-> now]]))

parsedSeconds(retryDelayMs) ==
    IF retryDelayMs > 0 THEN Max(1, CeilDiv(retryDelayMs, 1000)) ELSE 0

\* resolveAntigravityAccountRateLimitSeconds: [seconds, strikes]; seconds = 0
\* stands for null
resolveAntigravityAccountRateLimitSeconds(strikes, accountId, error) ==
    IF error.reason = "RATE_LIMIT_EXCEEDED"
    THEN [seconds |-> Max(ANTIGRAVITY_DEFAULT_RATE_LIMIT_SECONDS,
                          parsedSeconds(error.retryDelayMs)),
          strikes |-> strikes]
    ELSE IF error.reason = "QUOTA_EXHAUSTED"
    THEN Let(bumpAntigravityQuotaStrike(strikes, accountId),
             LAMBDA bumped :
             [seconds |->
                 Max(ANTIGRAVITY_QUOTA_LOCKOUT_SECONDS[
                         Min(bumped[accountId].count - 1,
                             Len(ANTIGRAVITY_QUOTA_LOCKOUT_SECONDS) - 1) + 1],
                     parsedSeconds(error.retryDelayMs)),
              strikes |-> bumped])
    ELSE [seconds |-> 0, strikes |-> strikes]

\* the error leaves the try block of the branch: the handler's catch answers it
surface(c, error) == [c EXCEPT !.pc = "thrown", !.surfaced = error]

\* attemptRequest(payload) / startStream(payload) is called for an account
send(c, accountId, payload) ==
    [c EXCEPT !.sent = Append(@, [accountId |-> accountId, payload |-> payload])]

\* faulty variant of firstAttemptFailed: tools are stripped after any failure
firstAttemptFailedAlwaysStrips(c, error, strikes) ==
    IF c.requestData.tools # ""
    THEN [c |-> send([c EXCEPT !.pc = "toolsRetry", !.error = error],
                     c.accountId, stripToolsFromRequest(c.requestData)),
          strikes |-> strikes]
    ELSE [c |-> surface([c EXCEPT !.error = error], error), strikes |-> strikes]

\* the catch of the first attempt, up to its first await: [c, strikes]
firstAttemptFailed(c, error, strikes) ==
    IF shouldRetryWithoutTools(error) /\ c.requestData.tools # ""
    THEN [c |-> send([c EXCEPT !.pc = "toolsRetry", !.error = error],
                     c.accountId, stripToolsFromRequest(c.requestData)),
          strikes |-> strikes]
    ELSE IF c.vendor = "antigravity" /\ error.statusCode = 429
    THEN Let(resolveAntigravityAccountRateLimitSeconds(strikes, c.accountId, error),
             LAMBDA res :
             IF res.seconds = 0
             THEN [c |-> surface([c EXCEPT !.error = error], error),
                   strikes |-> res.strikes]
             ELSE [c |-> [c EXCEPT !.pc = "marking", !.error = error,
                                   !.resetsInSeconds = res.seconds,
                                   !.marked = Append(@, [accountId |-> c.accountId,
                                                         seconds |-> res.seconds])],
                   strikes |-> res.strikes])
    ELSE [c |-> surface([c EXCEPT !.error = error], error), strikes |-> strikes]

\* faulty variant of accountRetryFailed: the error of the retry is surfaced
accountRetryFailedSurfacesRetryError(c, retryError) == surface(c, retryError)

\* catch (retryError) { throw error }
accountRetryFailed(c, retryError) == surface(c, c.error)

\* the new account was selected and its client built: the retry is sent
accountSelected(c, newAccountId) ==
    send([c EXCEPT !.pc = "accountRetry"], newAccountId, c.requestData)

(* Inputs *)

UpErr(statusCode, schemaText, reason, retryDelayMs) ==
    [statusCode |-> statusCode, schemaText |-> schemaText, reason |-> reason,
     retryDelayMs |-> retryDelayMs]

UpstreamErrors ==
    { UpErr(400, TRUE, "", 0),
      UpErr(400, FALSE, "", 0),
      UpErr(429, FALSE, "QUOTA_EXHAUSTED", 0),
      UpErr(429, FALSE, "QUOTA_EXHAUSTED", 400000),
      UpErr(429, FALSE, "RATE_LIMIT_EXCEEDED", 1500),
      UpErr(429, FALSE, "MODEL_CAPACITY_EXHAUSTED", 1500),
      UpErr(429, TRUE, "QUOTA_EXHAUSTED", 0),
      UpErr(500, FALSE, "", 0) }

\* a request with tools (and the toolConfig the handler adds) and one without
RequestDatas ==
    { [contents |-> "c", generationConfig |-> "g", tools |-> "tools",
       toolConfig |-> "VALIDATED"],
      [contents |-> "c", generationConfig |-> "g", tools |-> "", toolConfig |-> ""] }

HandlerInputs ==
    { [vendor |-> v, accountId |-> a, requestData |-> d] :
          v \in {"antigravity", "gemini-cli"}, a \in Accounts, d \in RequestDatas }

StrikeTicks == {ANTIGRAVITY_QUOTA_STRIKE_TTL_MS, ANTIGRAVITY_QUOTA_STRIKE_TTL_MS + 1}

(* The state machine of the controller *)

InitController ==
    /\ StreamIdle
    /\ TransportIdle
    /\ ControllerIdle
    /\ CacheEmpty
    /\ PureIdle

otherThanController == <<streamVars, modelUnavailableCooldowns, rq, env, cacheVars, pureVars>>

\* the handler reaches its first upstream attempt
FirstAttempt ==
    /\ ctl.pc \in {"idle", "answered", "thrown"}
    /\ ctl.id < MaxHandlerCalls
    /\ \E in \in HandlerInputs :
          ctl' = send([IdleHandler EXCEPT !.pc = "first", !.id = ctl.id + 1,
                                          !.vendor = in.vendor,
                                          !.accountId = in.accountId,
                                          !.requestData = in.requestData],
                      in.accountId, in.requestData)
    /\ UNCHANGED <<now, antigravityQuotaStrikesByAccountId, otherThanController>>

\* an upstream attempt (the first one or a retry) succeeds
AttemptOk ==
    /\ ctl.pc \in {"first", "toolsRetry", "accountRetry"}
    /\ ctl' = [ctl EXCEPT !.pc = "answered",
                          !.accountId = IF ctl.pc = "accountRetry"
                                        THEN ctl.sent[Len(ctl.sent)].accountId ELSE @]
    /\ UNCHANGED <<now, antigravityQuotaStrikesByAccountId, otherThanController>>

FirstAttemptFails ==
    /\ ctl.pc = "first"
    /\ \E error \in UpstreamErrors :
          Let(firstAttemptFailed(ctl, error, antigravityQuotaStrikesByAccountId),
              LAMBDA res :
              /\ ctl' = res.c
              /\ antigravityQuotaStrikesByAccountId' = res.strikes)
    /\ UNCHANGED <<now, otherThanController>>

\* the retry without tools fails: its error leaves the try block
ToolsRetryFails ==
    /\ ctl.pc = "toolsRetry"
    /\ \E error \in UpstreamErrors : ctl' = surface(ctl, error)
    /\ UNCHANGED <<now, antigravityQuotaStrikesByAccountId, otherThanController>>

\* markAccountRateLimited resolves or rejects (a rejection is only logged);
\* then the selection of a new account and the building of its client
\* succeed, or one of them throws
AccountSwitch ==
    /\ ctl.pc = "marking"
    /\ \/ \E newAccountId \in Accounts : ctl' = accountSelected(ctl, newAccountId)
       \/ ctl' = accountRetryFailed(ctl, NoUpstreamError)
    /\ UNCHANGED <<now, antigravityQuotaStrikesByAccountId, otherThanController>>

AccountRetryFails ==
    /\ ctl.pc = "accountRetry"
    /\ \E retryError \in UpstreamErrors : ctl' = accountRetryFailed(ctl, retryError)
    /\ UNCHANGED <<now, antigravityQuotaStrikesByAccountId, otherThanController>>

\* time passes between two handler calls; the locals of the finished call are gone
StrikeTick ==
    /\ ctl.pc \in {"idle", "answered", "thrown"}
    /\ \E d \in StrikeTicks :
          /\ now + d <= MaxStrikeTicks * (ANTIGRAVITY_QUOTA_STRIKE_TTL_MS + 1)
          /\ now' = now + d
    /\ ctl' = [IdleHandler EXCEPT !.id = ctl.id]
    /\ UNCHANGED <<antigravityQuotaStrikesByAccountId, otherThanController>>

NextController ==
    \/ FirstAttempt
    \/ AttemptOk
    \/ FirstAttemptFails
    \/ ToolsRetryFails
    \/ AccountSwitch
    \/ AccountRetryFails
    \/ StrikeTick

SpecController == InitController /\ [][NextController]_vars

-----------------------------------------------------------------------------
(* C15..C17: the retry controller                                          *)

\* the first attempt failed with a 429 that the controller resolved to a
\* positive account cooldown
Resolved429 == ctl.resetsInSeconds > 0

\* C15: when the first attempt fails with a 429 that resolves to a positive
\* account cooldown, the current account is marked rate-limited once for that
\* many seconds, at most one retry is sent, for the account the scheduler
\* selected and with the payload of the first attempt, and when the retry
\* path fails the error surfaced is the 429 of the first attempt.
C15_AccountSwitchRetriesOnce ==
    /\ [](Resolved429 =>
            /\ ctl.error.statusCode = 429
            /\ ctl.pc \in {"marking", "accountRetry", "answered", "thrown"}
            /\ ctl.marked = <<[accountId |-> ctl.sent[1].accountId,
                               seconds |-> ctl.resetsInSeconds]>>
            /\ Len(ctl.sent) = (IF ctl.pc = "marking" THEN 1 ELSE Len(ctl.sent))
            /\ Len(ctl.sent) <= 2
            /\ (Len(ctl.sent) = 2 => ctl.sent[2].payload = ctl.sent[1].payload)
            /\ (ctl.pc = "thrown" => ctl.surfaced = ctl.error))
    /\ [][(/\ ctl.pc = "first" /\ ctl'.pc # "answered"
           /\ ctl.vendor = "antigravity"
           /\ ctl'.error.statusCode = 429
           /\ ctl'.error.reason \in {"QUOTA_EXHAUSTED", "RATE_LIMIT_EXCEEDED"}
           /\ ~(ctl'.error.schemaText /\ ctl.requestData.tools # ""))
            => ctl'.pc = "marking" /\ ctl'.resetsInSeconds > 0]_vars
    /\ [][(ctl.pc = "marking" /\ ctl'.pc = "accountRetry")
            => Len(ctl'.sent) = 2 /\ ctl'.sent[2].payload = ctl.requestData]_vars

\* C15 witness: after a 429 the retry was sent for another account with the
\* same payload, the retry path failed and the 429 was surfaced.
C15_RetryFailedOriginalSurfaced ==
    /\ Resolved429
    /\ ctl.pc = "thrown"
    /\ Len(ctl.sent) = 2
    /\ ctl.sent[2].accountId # ctl.sent[1].accountId
    /\ ctl.sent[2].payload = ctl.sent[1].payload
    /\ ctl.surfaced = ctl.error
    /\ ctl.surfaced.statusCode = 429

\* C16: the stored strike count of an account stays within 1..4.  A
\* QUOTA_EXHAUSTED strike arriving within 6 hours of the previous one raises
\* the count by one up to 4, a strike arriving later (or the first one) sets
\* it to 1; when the backend advertises no delay the lockout is 60, 300, 1800
\* and 7200 seconds for the counts 1, 2, 3 and 4.
C16_QuotaStrikeLadder ==
    /\ [](\A a \in Accounts :
            /\ antigravityQuotaStrikesByAccountId[a].count \in 0..4
            /\ (antigravityQuotaStrikesByAccountId[a].lastAtMs > 0
                    => antigravityQuotaStrikesByAccountId[a].count >= 1))
    /\ [][\A a \in Accounts :
            antigravityQuotaStrikesByAccountId'[a] # antigravityQuotaStrikesByAccountId[a]
            => Let(antigravityQuotaStrikesByAccountId[a],
                   LAMBDA old :
                   Let(IF old.count > 0 /\ now - old.lastAtMs <= 6 * 60 * 60 * 1000
                       THEN (IF old.count < 4 THEN old.count + 1 ELSE 4)
                       ELSE 1,
                       LAMBDA count :
                       /\ a = ctl.accountId
                       /\ ctl'.error.reason = "QUOTA_EXHAUSTED"
                       /\ antigravityQuotaStrikesByAccountId'[a] =
                              [count |-> count, lastAtMs |-> now]
                       /\ (ctl'.error.retryDelayMs = 0
                              => ctl'.resetsInSeconds = <<60, 300, 1800, 7200>>[count])))]_vars
    /\ [][(/\ ctl.pc = "first" /\ ctl'.pc = "marking"
           /\ ctl'.error.reason = "QUOTA_EXHAUSTED")
            => antigravityQuotaStrikesByAccountId'[ctl.accountId].lastAtMs = now
               /\ antigravityQuotaStrikesByAccountId'[ctl.accountId].count >= 1]_vars

\* C16 witness: the fifth strike in a row on one account: the count stays 4
\* and the lockout is 7200 s.
C16_FifthStrikeStaysAtTwoHours ==
    /\ ctl.id = 5
    /\ ctl.pc = "marking"
    /\ ctl.error = UpErr(429, FALSE, "QUOTA_EXHAUSTED", 0)
    /\ ctl.resetsInSeconds = 7200
    /\ antigravityQuotaStrikesByAccountId[ctl.accountId].count = 4
    /\ now = 0

\* a payload other than the one of the first attempt has been sent
StrippedSent == \E i \in 2..Len(ctl.sent) : ctl.sent[i].payload # ctl.sent[1].payload

\* C17: a first attempt that fails with a message matching the schema
\* rejection text, for a request carrying tools, is followed by exactly one
\* retry, for the same account, whose payload is the request without tools
\* and toolConfig and otherwise unchanged; no other failure is followed by a
\* retry with another payload.
C17_ToolsStrippedOnlyOnSchemaRejection ==
    /\ ((ctl.pc \notin {"idle", "first"} /\ ctl.error.schemaText
            /\ ctl.requestData.tools # "")
          => /\ Len(ctl.sent) = 2
             /\ ctl.sent[2].accountId = ctl.sent[1].accountId
             /\ ctl.sent[2].payload =
                    [contents |-> ctl.sent[1].payload.contents,
                     generationConfig |-> ctl.sent[1].payload.generationConfig,
                     tools |-> "", toolConfig |-> ""]
             /\ ctl.pc \in {"toolsRetry", "answered", "thrown"})
    /\ (StrippedSent => ctl.error.schemaText /\ ctl.requestData.tools # "")

\* C17 witness: the retry without tools and toolConfig is in flight.
C17_RetryWithoutToolsSent ==
    /\ ctl.pc = "toolsRetry"
    /\ ctl.sent[1].payload.tools = "tools"
    /\ ctl.sent[1].payload.toolConfig = "VALIDATED"
    /\ ctl.sent[2].payload.tools = ""
    /\ ctl.sent[2].payload.toolConfig = ""
    /\ ctl.sent[2].payload.contents = ctl.sent[1].payload.contents

-----------------------------------------------------------------------------
(* Part 4: the signature cache                                             *)

\* hashText: '' for an empty text, else the first 16 hex digits of its SHA-256
hashText(text) == IF text = "think" THEN "h1" ELSE ""

isExpired(timestamp) == now - timestamp > SIGNATURE_CACHE_TTL_MS

isValidSignature(signature) == signature.len >= MIN_SIGNATURE_LENGTH

\* the keys of a map that hold an entry
Keys(cache, absent) == {k \in DOMAIN cache : cache[k] # absent}

RECURSIVE evictOldest(_, _, _)
\* delete the n entries with the smallest timestamps (among equal timestamps
\* the code deletes in insertion order, which the maps here do not keep)
evictOldest(cache, n, absent) ==
    IF n = 0 \/ Keys(cache, absent) = {} THEN cache
    ELSE Let(CHOOSE k \in Keys(cache, absent) :
                 \A j \in Keys(cache, absent) : cache[k].timestamp <= cache[j].timestamp,
             LAMBDA oldest : evictOldest([cache EXCEPT ![oldest] = absent], n - 1, absent))

\* faulty variant of cleanupCache: only expired entries are deleted
cleanupCacheExpiredOnly(cache, limit, absent) ==
    IF Cardinality(Keys(cache, absent)) <= limit THEN cache
    ELSE [k \in DOMAIN cache |->
             IF cache[k] # absent /\ isExpired(cache[k].timestamp)
             THEN absent ELSE cache[k]]

cleanupCache(cache, limit, absent) ==
    IF Cardinality(Keys(cache, absent)) <= limit THEN cache
    ELSE Let([k \in DOMAIN cache |->
                 IF cache[k] # absent /\ isExpired(cache[k].timestamp)
                 THEN absent ELSE cache[k]],
             LAMBDA live :
             IF Cardinality(Keys(live, absent)) > limit
             THEN evictOldest(live, Cardinality(Keys(live, absent)) - limit, absent)
             ELSE live)

\* faulty variant of getEntry: an expired entry is reported missing but kept
getEntryKeepsExpired(cache, key, absent) ==
    IF cache[key] = absent \/ isExpired(cache[key].timestamp)
    THEN [entry |-> absent, cache |-> cache]
    ELSE [entry |-> cache[key], cache |-> cache]

\* the body the four get* functions share, after their argument checks:
\* [entry, cache], entry being the absent entry for null and cache the map
\* after the call
getEntry(cache, key, absent) ==
    IF cache[key] = absent THEN [entry |-> absent, cache |-> cache]
    ELSE IF isExpired(cache[key].timestamp)
    THEN [entry |-> absent, cache |-> [cache EXCEPT ![key] = absent]]
    ELSE [entry |-> cache[key], cache |-> cache]

getToolSignature(cache, toolId) ==
    IF toolId = "" THEN [entry |-> NoEntry, cache |-> cache]
    ELSE getEntry(cache, toolId, NoEntry)

getSignatureFamily(cache, signature) ==
    IF signature = NoSig THEN [entry |-> NoFamilyEntry, cache |-> cache]
    ELSE getEntry(cache, signature, NoFamilyEntry)

getSessionSignature(cache, sessionId) ==
    IF sessionId = "" THEN [entry |-> NoEntry, cache |-> cache]
    ELSE getEntry(cache, sessionId, NoEntry)

getCachedSignature(cache, sessionId, thinkingText) ==
    IF sessionId = "" \/ thinkingText = "" \/ hashText(thinkingText) = ""
    THEN [entry |-> NoEntry, cache |-> cache]
    ELSE Let(getEntry(cache[sessionId], hashText(thinkingText), NoEntry),
             LAMBDA got :
             [entry |-> got.entry, cache |-> [cache EXCEPT ![sessionId] = got.cache]])

cacheToolSignature(cache, toolId, signature) ==
    IF toolId = "" \/ signature = NoSig \/ ~isValidSignature(signature) THEN cache
    ELSE cleanupCache([cache EXCEPT ![toolId] = [signature |-> signature, timestamp |-> now]],
                      TOOL_CACHE_LIMIT, NoEntry)

cacheSignatureFamily(cache, signature, modelFamily) ==
    IF signature = NoSig \/ modelFamily = "" \/ ~isValidSignature(signature) THEN cache
    ELSE cleanupCache([cache EXCEPT ![signature] =
                           [modelFamily |-> modelFamily, timestamp |-> now]],
                      FAMILY_CACHE_LIMIT, NoFamilyEntry)

\* faulty variant of cacheSessionSignature: a signature as long as the stored
\* one replaces it too
cacheSessionSignatureOrEqual(cache, sessionId, signature) ==
    IF sessionId = "" \/ signature = NoSig \/ ~isValidSignature(signature) THEN cache
    ELSE IF \/ cache[sessionId] = NoEntry
            \/ isExpired(cache[sessionId].timestamp)
            \/ signature.len >= cache[sessionId].signature.len
    THEN cleanupCache([cache EXCEPT ![sessionId] =
                           [signature |-> signature, timestamp |-> now]],
                      SESSION_CACHE_LIMIT, NoEntry)
    ELSE cache

cacheSessionSignature(cache, sessionId, signature) ==
    IF sessionId = "" \/ signature = NoSig \/ ~isValidSignature(signature) THEN cache
    ELSE IF \/ cache[sessionId] = NoEntry
            \/ isExpired(cache[sessionId].timestamp)
            \/ signature.len > cache[sessionId].signature.len
    THEN cleanupCache([cache EXCEPT ![sessionId] =
                           [signature |-> signature, timestamp |-> now]],
                      SESSION_CACHE_LIMIT, NoEntry)
    ELSE cache

\* faulty variant of storeInSession: a full map is not thinned before the insert
storeInSessionNoEviction(sessionCache, textHash, signature, cap) ==
    [sessionCache EXCEPT ![textHash] = [signature |-> signature, timestamp |-> now]]

\* cacheSignature from its eviction on: a session map that has reached the
\* cap loses its oldest quarter (at least one entry), then the entry is set
storeInSession(sessionCache, textHash, signature, cap) ==
    Let(IF Cardinality(Keys(sessionCache, NoEntry)) >= cap
        THEN evictOldest(sessionCache,
                         Max(1, Cardinality(Keys(sessionCache, NoEntry)) \div 4),
                         NoEntry)
        ELSE sessionCache,
        LAMBDA kept :
        [kept EXCEPT ![textHash] = [signature |-> signature, timestamp |-> now]])

\* cacheSignature stores nothing for these arguments
cacheSignatureSkips(sessionId, thinkingText, signature) ==
    \/ sessionId = "" \/ thinkingText = "" \/ signature = NoSig
    \/ ~isValidSignature(signature)
    \/ hashText(thinkingText) = ""

\* cacheSignature: the text-hash maps after the call (the update of the
\* session-latest map is in the action)
cacheSignature(cache, sessionId, thinkingText, signature) ==
    IF cacheSignatureSkips(sessionId, thinkingText, signature) THEN cache
    ELSE [cache EXCEPT ![sessionId] =
             storeInSession(cache[sessionId], hashText(thinkingText), signature,
                            MAX_ENTRIES_PER_SESSION)]

(* Inputs *)

SignatureInputs == CachedSignatures \cup {NoSig, Sig("d", 49)}
ToolIdInputs == ToolIds \cup {""}
SessionIdInputs == SessionIds \cup {""}
TextInputs == {"think", ""}
\* the times the clock is read at: around 0 and around the TTL
CacheTimes == {b * SIGNATURE_CACHE_TTL_MS + s : b \in 0..1, s \in 0..MaxCacheSlack}

(* The state machine of the signature cache *)

InitSignatureCache ==
    /\ StreamIdle
    /\ TransportIdle
    /\ ControllerIdle
    /\ CacheEmpty
    /\ PureIdle

otherThanCache == <<streamVars, modelUnavailableCooldowns, rq, env, controllerVars, pureVars>>

\* a get* call returned
Returned(fn, sessionId, key, signature, modelFamily, deleted) ==
    lastCall' = [NoCall EXCEPT !.fn = fn, !.sessionId = sessionId, !.key = key,
                               !.signature = signature, !.modelFamily = modelFamily,
                               !.deleted = deleted]

\* an insert into the session-latest map returned: the entry it overwrote
Stored(fn, sessionId) ==
    lastCall' = [NoCall EXCEPT
                    !.fn = fn, !.sessionId = sessionId,
                    !.replaced = IF sessionId # ""
                                    /\ sessionLatestSignatureCache'[sessionId]
                                           # sessionLatestSignatureCache[sessionId]
                                 THEN sessionLatestSignatureCache[sessionId]
                                 ELSE NoEntry]

CacheToolSignature ==
    /\ \E toolId \in ToolIdInputs, signature \in {Sig("c", 80), Sig("d", 49), NoSig} :
          toolSignatureCache' = cacheToolSignature(toolSignatureCache, toolId, signature)
    /\ lastCall' = NoCall
    /\ UNCHANGED <<now, modelFamilyCache, sessionLatestSignatureCache, signatureCache,
                   otherThanCache>>

GetToolSignature ==
    /\ \E toolId \in ToolIdInputs :
          Let(getToolSignature(toolSignatureCache, toolId),
              LAMBDA got :
              /\ toolSignatureCache' = got.cache
              /\ Returned("getToolSignature", "", toolId, got.entry.signature, "",
                          got.cache # toolSignatureCache))
    /\ UNCHANGED <<now, modelFamilyCache, sessionLatestSignatureCache, signatureCache,
                   otherThanCache>>

CacheSignatureFamily ==
    /\ \E signature \in {Sig("c", 80), Sig("d", 49), NoSig}, modelFamily \in {"gemini", ""} :
          modelFamilyCache' = cacheSignatureFamily(modelFamilyCache, signature, modelFamily)
    /\ lastCall' = NoCall
    /\ UNCHANGED <<now, toolSignatureCache, sessionLatestSignatureCache, signatureCache,
                   otherThanCache>>

GetSignatureFamily ==
    /\ \E signature \in {Sig("c", 80), NoSig} :
          Let(getSignatureFamily(modelFamilyCache, signature),
              LAMBDA got :
              /\ modelFamilyCache' = got.cache
              /\ Returned("getSignatureFamily", "", signature.tag, NoSig,
                          got.entry.modelFamily, got.cache # modelFamilyCache))
    /\ UNCHANGED <<now, toolSignatureCache, sessionLatestSignatureCache, signatureCache,
                   otherThanCache>>

CacheSessionSignature ==
    /\ \E sessionId \in SessionIdInputs, signature \in SignatureInputs :
          /\ sessionLatestSignatureCache' =
                 cacheSessionSignature(sessionLatestSignatureCache, sessionId, signature)
          /\ Stored("cacheSessionSignature", sessionId)
    /\ UNCHANGED <<now, toolSignatureCache, modelFamilyCache, signatureCache,
                   otherThanCache>>

GetSessionSignature ==
    /\ \E sessionId \in SessionIdInputs :
          Let(getSessionSignature(sessionLatestSignatureCache, sessionId),
              LAMBDA got :
              /\ sessionLatestSignatureCache' = got.cache
              /\ Returned("getSessionSignature", sessionId, sessionId,
                          got.entry.signature, "",
                          got.cache # sessionLatestSignatureCache))
    /\ UNCHANGED <<now, toolSignatureCache, modelFamilyCache, signatureCache,
                   otherThanCache>>

CacheSignature ==
    /\ \E sessionId \in SessionIdInputs, thinkingText \in TextInputs,
          signature \in {Sig("a", 50), Sig("d", 49), NoSig} :
          /\ signatureCache' =
                 cacheSignature(signatureCache, sessionId, thinkingText, signature)
          /\ sessionLatestSignatureCache' =
                 IF cacheSignatureSkips(sessionId, thinkingText, signature)
                 THEN sessionLatestSignatureCache
                 ELSE cacheSessionSignature(sessionLatestSignatureCache, sessionId,
                                            signature)
          /\ Stored("cacheSignature", sessionId)
    /\ UNCHANGED <<now, toolSignatureCache, modelFamilyCache, otherThanCache>>

GetCachedSignature ==
    /\ \E sessionId \in SessionIdInputs, thinkingText \in TextInputs :
          Let(getCachedSignature(signatureCache, sessionId, thinkingText),
              LAMBDA got :
              /\ signatureCache' = got.cache
              /\ Returned("getCachedSignature", sessionId, hashText(thinkingText),
                          got.entry.signature, "", got.cache # signatureCache))
    /\ UNCHANGED <<now, toolSignatureCache, modelFamilyCache, sessionLatestSignatureCache,
                   otherThanCache>>

\* time passes between calls
CacheTick ==
    /\ \E t \in CacheTimes :
          /\ t > now
          /\ now' = t
    /\ lastCall' = NoCall
    /\ UNCHANGED <<toolSignatureCache, modelFamilyCache, sessionLatestSignatureCache,
                   signatureCache, otherThanCache>>

NextSignatureCache ==
    \/ CacheToolSignature
    \/ GetToolSignature
    \/ CacheSignatureFamily
    \/ GetSignatureFamily
    \/ CacheSessionSignature
    \/ GetSessionSignature
    \/ CacheSignature
    \/ GetCachedSignature
    \/ CacheTick

SpecSignatureCache == InitSignatureCache /\ [][NextSignatureCache]_vars

-----------------------------------------------------------------------------
(* Part 5: the caps of the signature cache                                 *)

CapSignature == Sig("c", 80)
CapLimits == 1..MaxCapLimit

InitCacheCaps ==
    /\ StreamIdle
    /\ TransportIdle
    /\ ControllerIdle
    /\ CacheEmpty
    /\ NormIdle
    /\ TranslatorIdle
    /\ FunctionsIdle
    /\ capCache = [k \in CapKeys |-> NoEntry]
    /\ \E path \in {"cleanupCache", "cacheSignature"}, limit \in CapLimits :
          capIn = [path |-> path, limit |-> limit]
    /\ capLast = NoInsert

otherThanCaps == <<streamVars, modelUnavailableCooldowns, rq, env, controllerVars, cacheVars,
                   nz, tr, fcall>>

\* the map with the entry set, before anything is evicted
withEntry(cache, key) ==
    [cache EXCEPT ![key] = [signature |-> CapSignature, timestamp |-> now]]

Inserted(key) ==
    capLast' = [key |-> key,
                evicted |-> Keys(withEntry(capCache, key), NoEntry) \ Keys(capCache', NoEntry)]

\* cache.set(key, entry); cleanupCache(cache, LIMIT): the tail of
\* cacheToolSignature, cacheSignatureFamily and cacheSessionSignature
SetThenCleanup ==
    /\ capIn.path = "cleanupCache"
    /\ \E key \in CapKeys :
          /\ capCache' = cleanupCache(withEntry(capCache, key), capIn.limit, NoEntry)
          /\ Inserted(key)
    /\ UNCHANGED <<now, capIn, otherThanCaps>>

\* the insert of cacheSignature into one session's text-hash map
StoreInSession ==
    /\ capIn.path = "cacheSignature"
    /\ \E key \in CapKeys :
          /\ capCache' = storeInSession(capCache, key, CapSignature, capIn.limit)
          /\ Inserted(key)
    /\ UNCHANGED <<now, capIn, otherThanCaps>>

CapTick ==
    /\ \E t \in CacheTimes :
          /\ t > now
          /\ now' = t
    /\ capLast' = NoInsert
    /\ UNCHANGED <<capCache, capIn, otherThanCaps>>

NextCacheCaps ==
    \/ SetThenCleanup
    \/ StoreInSession
    \/ CapTick

SpecCacheCaps == InitCacheCaps /\ [][NextCacheCaps]_vars

-----------------------------------------------------------------------------
(* C19, C20: the signature cache                                           *)

\* the get* call that has just returned found, under its key, an entry
\* older than the TTL, or no entry
FoundIn(cache, key, absent, expired) ==
    IF expired THEN cache[key] # absent /\ isExpired(cache[key].timestamp)
    ELSE cache[key] = absent

\* what a get* call does with an expired entry (it returns null and the entry
\* is gone) and with a missing one (it returns null and changes nothing)
NotFound(cache, cacheAfter, key, absent) ==
    /\ lastCall'.signature = NoSig
    /\ lastCall'.modelFamily = ""
    /\ FoundIn(cache, key, absent, TRUE) =>
           cacheAfter = [cache EXCEPT ![key] = absent]
    /\ FoundIn(cache, key, absent, FALSE) =>
           cacheAfter = cache

\* C19: on each of the four surfaces, a lookup of a key whose entry is older
\* than the 2-hour TTL returns not-found and deletes that entry, and a lookup
\* of a key that has no entry (as after that deletion) returns not-found and
\* leaves the map as it is.
C19_ExpiredLookupDeletesThenNotFound ==
    [][ /\ \A toolId \in ToolIds :
            ( /\ lastCall'.fn = "getToolSignature" /\ lastCall'.key = toolId
              /\ \E e \in BOOLEAN : FoundIn(toolSignatureCache, toolId, NoEntry, e) )
            => NotFound(toolSignatureCache, toolSignatureCache', toolId, NoEntry)
        /\ \A signature \in CachedSignatures :
            ( /\ lastCall'.fn = "getSignatureFamily" /\ lastCall'.key = signature.tag
              /\ \E e \in BOOLEAN : FoundIn(modelFamilyCache, signature, NoFamilyEntry, e) )
            => NotFound(modelFamilyCache, modelFamilyCache', signature, NoFamilyEntry)
        /\ \A sessionId \in SessionIds :
            ( /\ lastCall'.fn = "getSessionSignature" /\ lastCall'.key = sessionId
              /\ \E e \in BOOLEAN :
                     FoundIn(sessionLatestSignatureCache, sessionId, NoEntry, e) )
            => NotFound(sessionLatestSignatureCache, sessionLatestSignatureCache',
                        sessionId, NoEntry)
        /\ \A sessionId \in SessionIds, textHash \in TextHashes :
            ( /\ lastCall'.fn = "getCachedSignature"
              /\ lastCall'.sessionId = sessionId /\ lastCall'.key = textHash
              /\ \E e \in BOOLEAN :
                     FoundIn(signatureCache[sessionId], textHash, NoEntry, e) )
            => NotFound(signatureCache[sessionId], signatureCache'[sessionId],
                        textHash, NoEntry)
      ]_vars

\* C19 witness: more than the TTL after an insert at time 0, a lookup on the
\* text-hash surface has deleted the entry and returned not-found.
C19_ExpiredEntryDeletedByLookup ==
    /\ lastCall.fn = "getCachedSignature"
    /\ lastCall.deleted
    /\ lastCall.signature = NoSig
    /\ signatureCache["s1"]["h1"] = NoEntry
    /\ now > SIGNATURE_CACHE_TTL_MS

\* a step in which an insert overwrote the session-latest entry of sessionId
Overwrote(sessionId) ==
    /\ sessionLatestSignatureCache[sessionId] # NoEntry
    /\ sessionLatestSignatureCache'[sessionId] # NoEntry
    /\ sessionLatestSignatureCache'[sessionId] # sessionLatestSignatureCache[sessionId]

-----------------------------------------------------------------------------
(* C21: the caps of the signature cache                                    *)

\* the last step was an insert through cleanupCache, and setting the entry
\* made the map larger than the cap
Overflowed ==
    /\ capIn.path = "cleanupCache"
    /\ capLast'.key # ""
    /\ Cardinality(Keys(withEntry(capCache, capLast'.key), NoEntry)) > capIn.limit

\* C21: after every insert the map holds at most as many entries as the cap
\* its insert path is given (500, 200 and 1000 through cleanupCache, 100 in
\* cacheSignature); when setting the entry overflows a map cleaned by
\* cleanupCache, every expired entry is deleted, no deleted entry is newer
\* than an entry that is kept, and no more unexpired entries are deleted
\* than are needed to reach the cap.
C21_CapsHoldAndOldestGoFirst ==
    /\ [](Cardinality(Keys(capCache, NoEntry)) <= capIn.limit)
    /\ [][ Overflowed =>
             Let(withEntry(capCache, capLast'.key),
                 LAMBDA set :
                 /\ \A k \in Keys(set, NoEntry) :
                        isExpired(set[k].timestamp) => capCache'[k] = NoEntry
                 /\ \A k \in Keys(capCache', NoEntry) : capCache'[k] = set[k]
                 /\ \A e \in Keys(set, NoEntry) \ Keys(capCache', NoEntry),
                       k \in Keys(capCache', NoEntry) :
                        set[e].timestamp <= set[k].timestamp
                 /\ (\E e \in Keys(set, NoEntry) \ Keys(capCache', NoEntry) :
                        ~isExpired(set[e].timestamp))
                    => Cardinality(Keys(capCache', NoEntry)) = capIn.limit)
         ]_vars

\* C21 witness: an insert through cleanupCache overflowed a map of cap 2 or
\* more, an entry was evicted, and the map is left at its cap with an entry
\* older than the inserted one still in it.
C21_OverflowEvictedOldest ==
    /\ capIn.path = "cleanupCache"
    /\ capIn.limit >= 2
    /\ capLast.evicted # {}
    /\ Cardinality(Keys(capCache, NoEntry)) = capIn.limit
    /\ \E k \in Keys(capCache, NoEntry) : capCache[k].timestamp < now

-----------------------------------------------------------------------------
(* Part 6: the message normalizer                                          *)

(* Messages and content blocks.  A block is a record of the fields the     *)
(* normalizer reads; text holds the text of a text block and the thinking  *)
(* of a thinking block.  A message has an array content (kind "array",     *)
(* field content) or a string content (kind "string", field text).         *)

ContentBlock(type, text, id, sigLen, cacheControl, isError) ==
    [type |-> type, text |-> text, id |-> id, sigLen |-> sigLen,
     cacheControl |-> cacheControl, isError |-> isError]

TextBlock(text) == ContentBlock("text", text, "", 0, FALSE, FALSE)
ThinkingBlock(thinking, sigLen, cacheControl) ==
    ContentBlock("thinking", thinking, "", sigLen, cacheControl, FALSE)
RedactedThinkingBlock == ContentBlock("redacted_thinking", <<>>, "", 0, FALSE, FALSE)
ToolUseBlock(id) == ContentBlock("tool_use", <<>>, id, 0, FALSE, FALSE)
ToolResultBlock(id) == ContentBlock("tool_result", <<"o", "k">>, id, 0, FALSE, FALSE)

ArrayMessage(role, content) ==
    [role |-> role, kind |-> "array", content |-> content, text |-> <<>>]
StringMessage(role, text) ==
    [role |-> role, kind |-> "string", content |-> <<>>, text |-> text]

NoContentText == <<"(", "n", "o", " ", "c", "o", "n", "t", "e", "n", "t", ")">>
MissingToolResultText == <<"[tool_result missing; tool execution interrupted]">>
PlaceholderText == <<".", ".", ".">>
ToolLoopClosedText == <<"[System: Tool execution completed. Proceeding to final response.]">>
FinalResultPleaseText == <<"Please provide the final result based on the tool output above.">>
ToolInterruptedText == <<"[Tool call was interrupted by user.]">>

isThinking(block) == block.type \in {"thinking", "redacted_thinking"}
isToolUse(block) == block.type = "tool_use"
isToolResult(block) == block.type = "tool_result"
isNotToolResult(block) == block.type # "tool_result"

\* the elements of a sequence, as a set
Range(s) == {s[i] : i \in DOMAIN s}

(* mergeConsecutiveMessages *)

\* faulty variant of mergedContent: the content of the second message is dropped
mergedContentKeepsCurrent(current, next) == current

mergedContent(current, next) ==
    IF current.kind = "array" /\ next.kind = "array"
    THEN [current EXCEPT !.content = current.content \o next.content]
    ELSE IF current.kind = "array"
    THEN [current EXCEPT !.content = Append(current.content, TextBlock(next.text))]
    ELSE IF next.kind = "string"
    THEN [current EXCEPT !.text = current.text \o <<"\n", "\n">> \o next.text]
    ELSE ArrayMessage(current.role, <<TextBlock(current.text)>> \o next.content)

RECURSIVE mergeFrom(_, _, _)
mergeFrom(merged, current, rest) ==
    IF rest = <<>> THEN Append(merged, current)
    ELSE IF current.role = Head(rest).role
    THEN mergeFrom(merged, mergedContent(current, Head(rest)), Tail(rest))
    ELSE mergeFrom(Append(merged, current), Head(rest), Tail(rest))

\* faulty variant of mergeConsecutiveMessages: the messages are left as they are
mergeConsecutiveMessagesNot(messages) == messages

mergeConsecutiveMessages(messages) ==
    IF Len(messages) <= 1 THEN messages
    ELSE mergeFrom(<<>>, Head(messages), Tail(messages))

(* sortThinkingBlocksFirst *)

\* a thinking block comes after a block that is not one
needsReorder(blocks) ==
    \E i, j \in DOMAIN blocks : i < j /\ ~isThinking(blocks[i]) /\ isThinking(blocks[j])

isKeptText(block) ==
    block.type = "text" /\ trim(block.text) # <<>> /\ trim(block.text) # NoContentText
isOther(block) == ~isThinking(block) /\ block.type # "text" /\ ~isToolUse(block)

\* faulty variant of sortedBlocks: the blocks are left in their order
sortedBlocksUnsorted(blocks) == blocks

sortedBlocks(blocks) ==
    Let(SelectSeq(blocks, isThinking) \o SelectSeq(blocks, isKeptText)
            \o SelectSeq(blocks, isOther) \o SelectSeq(blocks, isToolUse),
        LAMBDA newContent :
        IF Len(newContent) # Len(blocks) \/ needsReorder(blocks)
        THEN newContent ELSE blocks)

sortThinkingBlocksFirst(messages) ==
    [i \in DOMAIN messages |->
        IF messages[i].role # "assistant" \/ messages[i].kind # "array"
           \/ Len(messages[i].content) <= 1
        THEN messages[i]
        ELSE [messages[i] EXCEPT !.content = sortedBlocks(messages[i].content)]]

(* purifyHistoryThinking *)

isNotThinking(block) == ~isThinking(block)

\* faulty variant of purifiedContent: an emptied message gets no placeholder
purifiedContentNoPlaceholder(content) == SelectSeq(content, isNotThinking)

purifiedContent(content) ==
    Let(SelectSeq(content, isNotThinking),
        LAMBDA kept :
        IF Len(kept) # Len(content) /\ kept = <<>>
        THEN <<TextBlock(PlaceholderText)>> ELSE kept)

purifyHistoryThinking(messages, strategy) ==
    IF strategy = "none" \/ messages = <<>> THEN messages
    ELSE Let(Max(0, Len(messages) - (IF strategy = "soft" THEN 4 ELSE 0)) + 1,
             LAMBDA startProtection :
             [i \in DOMAIN messages |->
                 IF messages[i].role # "assistant" \/ i >= startProtection
                    \/ messages[i].kind # "array"
                 THEN messages[i]
                 ELSE [messages[i] EXCEPT !.content = purifiedContent(messages[i].content)]])

(* analyzeConversationState, closeToolLoopForThinking *)

\* the index of the last assistant message, 0 for null
lastAssistantIdx(messages) ==
    IF \E i \in DOMAIN messages : messages[i].role = "assistant"
    THEN CHOOSE i \in DOMAIN messages :
             /\ messages[i].role = "assistant"
             /\ \A j \in DOMAIN messages : j > i => messages[j].role # "assistant"
    ELSE 0

analyzeConversationState(messages) ==
    Let(lastAssistantIdx(messages),
        LAMBDA idx :
        Let(/\ idx # 0
            /\ messages[idx].kind = "array"
            /\ \E b \in Range(messages[idx].content) : isToolUse(b)
            /\ messages[Len(messages)].role = "user",
            LAMBDA toolPending :
            [ lastAssistantIdx |-> idx,
              inToolLoop |-> /\ toolPending
                             /\ messages[Len(messages)].kind = "array"
                             /\ \E b \in Range(messages[Len(messages)].content) :
                                    isToolResult(b),
              interruptedTool |-> /\ toolPending
                                  /\ ~ /\ messages[Len(messages)].kind = "array"
                                       /\ \E b \in Range(messages[Len(messages)].content) :
                                              isToolResult(b) ]))

hasValidThinking(message) ==
    /\ message.kind = "array"
    /\ \E b \in Range(message.content) :
          b.type = "thinking" /\ b.text # <<>> /\ b.sigLen >= MIN_SIGNATURE_LENGTH

closeToolLoopForThinking(messages) ==
    Let(analyzeConversationState(messages),
        LAMBDA state :
        IF ~state.inToolLoop /\ ~state.interruptedTool THEN messages
        ELSE IF hasValidThinking(messages[state.lastAssistantIdx]) THEN messages
        ELSE IF state.inToolLoop
        THEN messages \o << ArrayMessage("assistant", <<TextBlock(ToolLoopClosedText)>>),
                            ArrayMessage("user", <<TextBlock(FinalResultPleaseText)>>) >>
        ELSE SubSeq(messages, 1, state.lastAssistantIdx)
                 \o <<ArrayMessage("assistant", <<TextBlock(ToolInterruptedText)>>)>>
                 \o SubSeq(messages, state.lastAssistantIdx + 1, Len(messages)))

(* normalizeAnthropicMessages *)

isIgnorableTrailingText(part) ==
    part.type = "text" /\ (trim(part.text) = <<>> \/ trim(part.text) = NoContentText)

withoutCacheControl(part) == [part EXCEPT !.cacheControl = FALSE]

isOtherKept(part) == ~isThinking(part) /\ ~isIgnorableTrailingText(part)

normalizeAssistantThinkingOrderForVendor(parts, vendor) ==
    IF vendor # "antigravity" THEN parts
    ELSE Let(SelectSeq(parts, isThinking),
             LAMBDA thinkingBlocks :
             [i \in DOMAIN thinkingBlocks |-> withoutCacheControl(thinkingBlocks[i])]
                 \o SelectSeq(parts, isOtherKept))

\* everything up to the first tool_use, then only the tool_use blocks
stripNonToolPartsAfterToolUse(parts) ==
    IF \E i \in DOMAIN parts : isToolUse(parts[i])
    THEN Let(CHOOSE i \in DOMAIN parts :
                 isToolUse(parts[i]) /\ \A j \in 1..(i - 1) : ~isToolUse(parts[j]),
             LAMBDA first :
             SubSeq(parts, 1, first - 1)
                 \o SelectSeq(SubSeq(parts, first, Len(parts)), isToolUse))
    ELSE parts

syntheticToolResult(toolUseId) ==
    ContentBlock("tool_result", MissingToolResultText, toolUseId, 0, FALSE, TRUE)

syntheticToolResults(toolUseIds) ==
    [i \in DOMAIN toolUseIds |-> syntheticToolResult(toolUseIds[i])]

idsOf(blocks) == [i \in DOMAIN blocks |-> blocks[i].id]

\* faulty variant of missingIds: every pending id counts as missing
missingIdsAll(pendingToolUseIds, parts) == pendingToolUseIds

\* the pending ids that have no tool_result among parts
missingIds(pendingToolUseIds, parts) ==
    Let({b.id : b \in Range(SelectSeq(parts, isToolResult))},
        LAMBDA toolResultIds :
        SelectSeq(pendingToolUseIds, LAMBDA id : id \notin toolResultIds))

\* faulty variant of splitUserMessage: a mixed user message is left whole
splitUserMessageNot(message, parts) == <<[message EXCEPT !.content = parts]>>

\* a user message from the split on: one message, or the tool_result blocks
\* and the other blocks as two messages
splitUserMessage(message, parts) ==
    IF SelectSeq(parts, isToolResult) = <<>> \/ SelectSeq(parts, isNotToolResult) = <<>>
    THEN <<[message EXCEPT !.content = parts]>>
    ELSE << [message EXCEPT !.content = SelectSeq(parts, isToolResult)],
            [message EXCEPT !.content = SelectSeq(parts, isNotToolResult)] >>

\* one pass of the loop over the messages: [normalized, pendingToolUseIds]
normalizeMessage(acc, message, vendor) ==
    IF message.kind # "array"
    THEN [acc EXCEPT !.normalized = Append(@, message)]
    ELSE IF message.role = "assistant"
    THEN Let(normalizeAssistantThinkingOrderForVendor(message.content, vendor),
             LAMBDA parts :
             IF vendor = "antigravity"
             THEN Let(stripNonToolPartsAfterToolUse(parts),
                      LAMBDA stripped :
                      [ normalized |->
                            (IF acc.pendingToolUseIds # <<>>
                             THEN Append(acc.normalized,
                                         ArrayMessage("user",
                                             syntheticToolResults(acc.pendingToolUseIds)))
                             ELSE acc.normalized)
                                \o <<[message EXCEPT !.content = stripped]>>,
                        pendingToolUseIds |-> idsOf(SelectSeq(stripped, isToolUse)) ])
             ELSE [acc EXCEPT !.normalized = Append(@, [message EXCEPT !.content = parts])])
    ELSE IF message.role # "user"
    THEN [acc EXCEPT !.normalized = Append(@, message)]
    ELSE IF vendor = "antigravity" /\ acc.pendingToolUseIds # <<>>
    THEN Let(missingIds(acc.pendingToolUseIds, message.content),
             LAMBDA missing :
             [ normalized |->
                   acc.normalized
                       \o splitUserMessage(message,
                              IF missing # <<>>
                              THEN SelectSeq(message.content, isToolResult)
                                       \o syntheticToolResults(missing)
                                       \o SelectSeq(message.content, isNotToolResult)
                              ELSE message.content),
               pendingToolUseIds |-> <<>> ])
    ELSE [acc EXCEPT !.normalized = @ \o splitUserMessage(message, message.content)]

RECURSIVE normalizeLoop(_, _, _)
normalizeLoop(acc, messages, vendor) ==
    IF messages = <<>> THEN acc
    ELSE normalizeLoop(normalizeMessage(acc, Head(messages), vendor), Tail(messages), vendor)

normalizeAnthropicMessages(messages, vendor) ==
    IF messages = <<>> THEN messages
    ELSE Let(normalizeLoop([normalized |-> <<>>, pendingToolUseIds |-> <<>>],
                           messages, vendor),
             LAMBDA acc :
             IF vendor = "antigravity" /\ acc.pendingToolUseIds # <<>>
             THEN Append(acc.normalized,
                         ArrayMessage("user", syntheticToolResults(acc.pendingToolUseIds)))
             ELSE acc.normalized)

(* Inputs *)

TxtA == <<"a">>
TxtB == <<"b">>
TextA == TextBlock(TxtA)
TextNoContent == TextBlock(NoContentText)
SignedThinking == ThinkingBlock(<<"k">>, MIN_SIGNATURE_LENGTH, FALSE)
UnsignedThinking == ThinkingBlock(<<"u">>, 0, TRUE)

RECURSIVE SeqsUpTo(_, _)
\* the sequences over S of length at most n
SeqsUpTo(S, n) ==
    IF n = 0 THEN {<<>>}
    ELSE Let(SeqsUpTo(S, n - 1),
             LAMBDA shorter : shorter \cup {Append(s, x) : s \in shorter, x \in S})

AssistantContents ==
    SeqsUpTo({TextA, TextNoContent, SignedThinking, ToolUseBlock("t1")}, 2)
        \cup { <<UnsignedThinking>>, <<TextA, UnsignedThinking>>,
               <<RedactedThinkingBlock, TextA>>,
               <<ToolUseBlock("t1"), TextA, SignedThinking>>,
               <<ToolUseBlock("t1"), ToolUseBlock("t2")>>,
               <<TextBlock(<<" ">>)>> }

UserContents ==
    SeqsUpTo({TextBlock(TxtB), ToolResultBlock("t1")}, 2)
        \cup { <<ToolResultBlock("t2")>>,
               <<TextBlock(TxtB), ToolResultBlock("t1"), TextBlock(TxtA)>> }

ClientMessages ==
    {ArrayMessage("assistant", c) : c \in AssistantContents}
        \cup {ArrayMessage("user", c) : c \in UserContents}
        \cup {StringMessage("user", TxtB), StringMessage("assistant", TxtA)}

\* the vendor, and the strategy determinePurificationStrategy picks from the
\* estimated size of the request
Vendors == {"antigravity", "gemini-cli"}
Strategies == {"none", "soft", "aggressive"}

(* The state machine of the normalizer *)

InitNormalizer ==
    /\ StreamIdle
    /\ TransportIdle
    /\ ControllerIdle
    /\ CacheEmpty
    /\ CapIdle
    /\ TranslatorIdle
    /\ FunctionsIdle
    /\ \E client \in SeqsUpTo(ClientMessages, MaxMessages), vendor \in Vendors,
          strategy \in Strategies :
          /\ vendor # "antigravity" => strategy = "none"
          /\ nz = [stage |-> "client", vendor |-> vendor, strategy |-> strategy,
                   client |-> client, merged |-> <<>>, prepared |-> <<>>,
                   normalized |-> <<>>, again |-> <<>>]

otherThanNormalizer ==
    <<streamVars, transportVars, controllerVars, cacheVars, capVars, tr, fcall>>

\* the preprocessing of antigravity requests between sorting and normalizing
contextManaged(messages, vendor, strategy) ==
    IF vendor = "antigravity"
    THEN closeToolLoopForThinking(purifyHistoryThinking(messages, strategy))
    ELSE messages

\* buildGeminiRequestFromAnthropic, up to the normalized messages
BuildRequest ==
    /\ nz.stage = "client"
    /\ Let(mergeConsecutiveMessages(nz.client),
           LAMBDA merged :
           Let(contextManaged(sortThinkingBlocksFirst(merged), nz.vendor, nz.strategy),
               LAMBDA prepared :
               nz' = [nz EXCEPT !.stage = "built", !.merged = merged,
                                !.prepared = prepared,
                                !.normalized =
                                    normalizeAnthropicMessages(prepared, nz.vendor)]))
    /\ UNCHANGED otherThanNormalizer

\* the count_tokens handler: the client's messages are normalized as they are
CountTokens ==
    /\ nz.stage = "client"
    /\ nz.strategy = "none"
    /\ nz' = [nz EXCEPT !.stage = "counted", !.prepared = nz.client,
                        !.normalized = normalizeAnthropicMessages(nz.client, nz.vendor)]
    /\ UNCHANGED otherThanNormalizer

\* normalizeAnthropicMessages applied to its own output
NormalizeAgain ==
    /\ nz.stage \in {"built", "counted"}
    /\ nz' = [nz EXCEPT !.stage = nz.stage \o "-again",
                        !.again = normalizeAnthropicMessages(nz.normalized, nz.vendor)]
    /\ UNCHANGED otherThanNormalizer

NextNormalizer ==
    \/ BuildRequest
    \/ CountTokens
    \/ NormalizeAgain

SpecNormalizer == InitNormalizer /\ [][NextNormalizer]_vars

-----------------------------------------------------------------------------
(* C22..C28: the message normalizer                                        *)

\* positions i such that messages i and i+1 have the same role
SameRolePairs(messages) ==
    {i \in 1..(Len(messages) - 1) : messages[i].role = messages[i + 1].role}

onlyToolResults(message) ==
    /\ message.kind = "array"
    /\ message.content # <<>>
    /\ \A b \in Range(message.content) : isToolResult(b)

noToolResults(message) ==
    message.kind = "string" \/ \A b \in Range(message.content) : ~isToolResult(b)

\* C22 as stated: the messages the content translator is given by
\* buildGeminiRequestFromAnthropic never hold two adjacent messages of the
\* same role.
C22_NoAdjacentSameRole ==
    nz.stage = "built" => SameRolePairs(nz.normalized) = {}

\* C22: after mergeConsecutiveMessages no two adjacent messages share a role;
\* in the messages the content translator is given no two assistant messages
\* are adjacent, and two adjacent user messages are either the two halves of
\* a split (tool_result blocks only, then no tool_result block) or a user
\* message with string content followed by synthesized tool_result blocks.
C22_AdjacentSameRoleOnlyUserSplit ==
    nz.stage = "built" =>
        /\ SameRolePairs(nz.merged) = {}
        /\ \A i \in SameRolePairs(nz.normalized) :
              /\ nz.normalized[i].role = "user"
              /\ \/ onlyToolResults(nz.normalized[i]) /\ noToolResults(nz.normalized[i + 1])
                 \/ /\ nz.vendor = "antigravity"
                    /\ nz.normalized[i].kind = "string"
                    /\ onlyToolResults(nz.normalized[i + 1])
                    /\ \A b \in Range(nz.normalized[i + 1].content) : b.isError

\* C22 witness: a merged list without adjacent equal roles has become a
\* normalized list in which a tool_result-only user message is followed by a
\* user message without tool_result blocks.
C22_SplitLeftTwoUserMessages ==
    /\ nz.stage = "built"
    /\ Len(nz.client) > Len(nz.merged)
    /\ \E i \in SameRolePairs(nz.normalized) :
          onlyToolResults(nz.normalized[i]) /\ noToolResults(nz.normalized[i + 1])

\* normalizeAnthropicMessages has returned, for the antigravity vendor
NormalizedForAntigravity ==
    nz.stage \in {"built", "counted"} /\ nz.vendor = "antigravity"

toolUseIds(message) ==
    IF message.kind = "array"
    THEN {b.id : b \in {c \in Range(message.content) : isToolUse(c)}}
    ELSE {}

\* message i is an assistant message with tool_use blocks and message i+1 is
\* a user message of tool_result blocks only, one for each of those ids
ToolUseAnswered(messages, i) ==
    /\ i < Len(messages)
    /\ messages[i + 1].role = "user"
    /\ onlyToolResults(messages[i + 1])
    /\ \A id \in toolUseIds(messages[i]) :
          \E b \in Range(messages[i + 1].content) :
              /\ b.id = id
              /\ b.isError => b.text = MissingToolResultText

\* C23: for the antigravity vendor, in the output of
\* normalizeAnthropicMessages every assistant message with tool_use blocks is
\* immediately followed by a user message of tool_result blocks only that
\* holds a tool_result for each of its tool_use ids.
C23_ToolUseImmediatelyAnswered ==
    NormalizedForAntigravity =>
        \A i \in DOMAIN nz.normalized :
            ( nz.normalized[i].role = "assistant" /\ toolUseIds(nz.normalized[i]) # {} )
            => ToolUseAnswered(nz.normalized, i)

isMixedUserMessage(message) ==
    /\ message.role = "user"
    /\ message.kind = "array"
    /\ SelectSeq(message.content, isToolResult) # <<>>
    /\ SelectSeq(message.content, isNotToolResult) # <<>>

isClientBlock(block) == ~block.isError

\* messages i and i+1 are the two halves of message: its tool_result blocks
\* (with synthesized ones after them, if any), then its other blocks
SplitOf(messages, i, message) ==
    /\ i < Len(messages)
    /\ messages[i].role = "user"
    /\ messages[i + 1].role = "user"
    /\ onlyToolResults(messages[i])
    /\ SelectSeq(messages[i].content, isClientBlock)
           = SelectSeq(message.content, isToolResult)
    /\ messages[i + 1].kind = "array"
    /\ messages[i + 1].content = SelectSeq(message.content, isNotToolResult)

\* C24: in the output of normalizeAnthropicMessages every user message with a
\* tool_result block holds tool_result blocks only, and every user message
\* of its input that mixes tool_result blocks with other blocks has become
\* two adjacent user messages: its tool_result blocks in their order, then
\* its other blocks in their order.
C24_MixedUserMessageSplit ==
    nz.stage \in {"built", "counted"} =>
        /\ \A i \in DOMAIN nz.normalized :
              ( /\ nz.normalized[i].role = "user"
                /\ nz.normalized[i].kind = "array"
                /\ \E b \in Range(nz.normalized[i].content) : isToolResult(b) )
              => onlyToolResults(nz.normalized[i])
        /\ \A j \in DOMAIN nz.prepared :
              isMixedUserMessage(nz.prepared[j])
              => \E i \in DOMAIN nz.normalized : SplitOf(nz.normalized, i, nz.prepared[j])

\* C24 witness: a user message with a text block, a tool_result block and a
\* second text block was normalized into the tool_result block and the two
\* text blocks.
C24_ThreeBlockMessageSplit ==
    /\ nz.stage \in {"built", "counted"}
    /\ \E j \in DOMAIN nz.prepared :
          /\ isMixedUserMessage(nz.prepared[j])
          /\ Len(SelectSeq(nz.prepared[j].content, isNotToolResult)) >= 2
          /\ \E i \in DOMAIN nz.normalized : SplitOf(nz.normalized, i, nz.prepared[j])

RECURSIVE IsSubSeq(_, _)
\* s can be had from t by deleting elements
IsSubSeq(s, t) ==
    IF s = <<>> THEN TRUE
    ELSE IF t = <<>> THEN FALSE
    ELSE IF Head(s) = Head(t) THEN IsSubSeq(Tail(s), Tail(t))
    ELSE IsSubSeq(s, Tail(t))

\* the blocks of a message; a string content counts as one text block
blocksOf(message) ==
    IF message.kind = "array" THEN message.content ELSE <<TextBlock(message.text)>>

RECURSIVE assistantBlocks(_)
\* the blocks of the assistant messages, in order, without cache_control
assistantBlocks(messages) ==
    IF messages = <<>> THEN <<>>
    ELSE (IF Head(messages).role = "assistant"
          THEN [i \in DOMAIN blocksOf(Head(messages)) |->
                   withoutCacheControl(blocksOf(Head(messages))[i])]
          ELSE <<>>)
             \o assistantBlocks(Tail(messages))

\* the text blocks the preprocessing writes itself
isInsertedText(block) ==
    block.type = "text"
    /\ block.text \in {PlaceholderText, ToolLoopClosedText, ToolInterruptedText}

isClientText(block) == block.type = "text" /\ ~isInsertedText(block)

RECURSIVE textOf(_)
\* the characters of the blocks' texts, in order
textOf(blocks) ==
    IF blocks = <<>> THEN <<>> ELSE Head(blocks).text \o textOf(Tail(blocks))

\* the characters of the assistant messages' text blocks that come from the
\* client, without the line breaks that join merged strings
clientText(messages) ==
    SelectSeq(textOf(SelectSeq(assistantBlocks(messages), isClientText)),
              LAMBDA c : c # "\n")

thinkingLeads(content) ==
    \A i, j \in DOMAIN content : (i < j /\ isThinking(content[j])) => isThinking(content[i])

\* C25: in the messages buildGeminiRequestFromAnthropic hands to the content
\* translator, every assistant message has its thinking and
\* redacted_thinking blocks before all its other blocks, and the thinking
\* blocks, the texts and the tool_use blocks of the assistant messages each
\* appear in the order the client sent them.
C25_ThinkingFirstOrderKept ==
    nz.stage = "built" =>
        /\ \A i \in DOMAIN nz.normalized :
              ( nz.normalized[i].role = "assistant" /\ nz.normalized[i].kind = "array" )
              => thinkingLeads(nz.normalized[i].content)
        /\ IsSubSeq(SelectSeq(assistantBlocks(nz.normalized), isThinking),
                    SelectSeq(assistantBlocks(nz.client), isThinking))
        /\ IsSubSeq(clientText(nz.normalized), clientText(nz.client))
        /\ IsSubSeq(SelectSeq(assistantBlocks(nz.normalized), isToolUse),
                    SelectSeq(assistantBlocks(nz.client), isToolUse))

\* C25 witness: the client sent an assistant message with a thinking block
\* after a text or tool_use block, and the thinking block is still there,
\* now first.
C25_ThinkingMovedToFront ==
    /\ nz.stage = "built"
    /\ \E i \in DOMAIN nz.client :
          /\ nz.client[i].role = "assistant"
          /\ nz.client[i].kind = "array"
          /\ ~thinkingLeads(nz.client[i].content)
    /\ \E i \in DOMAIN nz.normalized :
          /\ nz.normalized[i].role = "assistant"
          /\ nz.normalized[i].kind = "array"
          /\ Len(nz.normalized[i].content) >= 2
          /\ isThinking(nz.normalized[i].content[1])

\* C26: for either vendor, normalizeAnthropicMessages applied to its own
\* output returns that output.
C26_NormalizeIdempotent ==
    nz.stage \in {"built-again", "counted-again"} => nz.again = nz.normalized

\* C26 witness: a first run for antigravity both synthesized a tool_result
\* and split a user message, and the second run changed nothing.
C26_SecondRunChangedNothing ==
    /\ nz.stage = "counted-again"
    /\ nz.vendor = "antigravity"
    /\ Len(nz.normalized) > Len(nz.client) + 1
    /\ \E i \in DOMAIN nz.normalized :
          /\ nz.normalized[i].kind = "array"
          /\ \E b \in Range(nz.normalized[i].content) : b.isError
    /\ SameRolePairs(nz.normalized) # {}
    /\ nz.again = nz.normalized

\* what a block contributes to its message: a text block its characters, any
\* other block itself
itemsOf(block) ==
    IF block.type = "text"
    THEN [i \in DOMAIN block.text |-> [type |-> "char", char |-> block.text[i]]]
    ELSE <<block>>

RECURSIVE itemsOfAll(_)
itemsOfAll(blocks) ==
    IF blocks = <<>> THEN <<>> ELSE itemsOf(Head(blocks)) \o itemsOfAll(Tail(blocks))

isLineBreak(item) == item.type = "char" /\ item.char = "\n"
\* a tool_result synthesized by normalizeAnthropicMessages, or the user text
\* closeToolLoopForThinking appends
isSynthesized(item) ==
    \/ item.type = "tool_result" /\ item.isError
    \/ item.type = "char" /\ <<item.char>> = FinalResultPleaseText

RECURSIVE userItems(_)
\* everything the user messages hold, in order, without the line breaks that
\* join merged strings and without what the preprocessing adds
userItems(messages) ==
    IF messages = <<>> THEN <<>>
    ELSE (IF Head(messages).role = "user"
          THEN SelectSeq(itemsOfAll(blocksOf(Head(messages))),
                         LAMBDA item : ~isLineBreak(item) /\ ~isSynthesized(item))
          ELSE <<>>)
             \o userItems(Tail(messages))

\* the client sent two messages, both with role user
TwoUserMessages ==
    /\ nz.stage = "built"
    /\ Len(nz.client) = 2
    /\ nz.client[1].role = "user"
    /\ nz.client[2].role = "user"

\* C27 as stated: two consecutive client user messages come out of the
\* normalizer as a single user message holding the content of both in order.
C27_TwoUserMessagesBecomeOne ==
    TwoUserMessages =>
        /\ Len(nz.normalized) = 1
        /\ userItems(nz.normalized) = userItems(nz.client)

\* C27: mergeConsecutiveMessages leaves no two adjacent user messages and
\* keeps every block and character of the user messages in order; the
\* normalized messages keep the tool_result blocks in their order and the
\* rest in its order, and two consecutive client user messages come out as
\* one user message, or as two when the merged message mixes tool_result
\* blocks with other content.
C27_UserContentMergedInOrder ==
    nz.stage = "built" =>
        /\ \A i \in SameRolePairs(nz.merged) : nz.merged[i].role # "user"
        /\ userItems(nz.merged) = userItems(nz.client)
        /\ SelectSeq(userItems(nz.normalized), isToolResult)
               = SelectSeq(userItems(nz.client), isToolResult)
        /\ SelectSeq(userItems(nz.normalized), isNotToolResult)
               = SelectSeq(userItems(nz.client), isNotToolResult)
        /\ TwoUserMessages =>
               /\ Len(nz.merged) = 1
               /\ IF isMixedUserMessage(nz.merged[1])
                  THEN Len(nz.normalized) = 2 /\ SplitOf(nz.normalized, 1, nz.merged[1])
                  ELSE nz.normalized = nz.merged

\* C27 witness: two client user messages, a text block and a string, were
\* merged into one user message that holds both.
C27_TextAndStringMerged ==
    /\ TwoUserMessages
    /\ nz.client[1].kind = "array"
    /\ nz.client[1].content # <<>>
    /\ nz.client[2].kind = "string"
    /\ Len(nz.normalized) = 1
    /\ nz.normalized[1].content = Append(nz.client[1].content, TextBlock(nz.client[2].text))

\* the client sent no message with an empty content array
ClientContentsNotEmpty ==
    \A i \in DOMAIN nz.client :
        nz.client[i].kind = "array" => nz.client[i].content # <<>>

\* C28: no assistant message leaves the normalizer of
\* buildGeminiRequestFromAnthropic with an empty content array (the client
\* having sent none).
C28_NoEmptyAssistantMessage ==
    ( nz.stage = "built" /\ ClientContentsNotEmpty ) =>
        \A i \in DOMAIN nz.normalized :
            ( nz.normalized[i].role = "assistant" /\ nz.normalized[i].kind = "array" )
            => nz.normalized[i].content # <<>>

-----------------------------------------------------------------------------
(* Part 7: the content translator                                          *)

(* A text is a sequence of characters in which a fixed literal may stand   *)
(* as one unit.  A block of a normalized message is a record of the fields *)
(* the translator reads: text holds the text of a text block and the       *)
(* thinking of a thinking block, signature is the block's raw signature,   *)
(* id is the id of a tool_use and the tool_use_id of a tool_result.  A     *)
(* backend part is [kind, text, thought, sig, name, id, from]: sig <<>>    *)
(* says the part has no thoughtSignature, text <<>> that it has no text,   *)
(* and from is the position of the block the part was made from.           *)

THOUGHT_SIGNATURE_FALLBACK == <<"skip_thought_signature_validator">>
SYSTEM_REMINDER_PREFIX == <<"<system-reminder>">>

AnthropicBlock(type, text, signature, id, name, hasData) ==
    [type |-> type, text |-> text, signature |-> signature, id |-> id, name |-> name,
     hasData |-> hasData]

GeminiPart(kind, text, thought, sig, name, id, from) ==
    [kind |-> kind, text |-> text, thought |-> thought, sig |-> sig, name |-> name,
     id |-> id, from |-> from]

shouldSkipText(text) ==
    text = <<>> \/ startsWith(trimStart(text), SYSTEM_REMINDER_PREFIX)

\* toLowerCase of a model name, unit by unit
lowerCaseName(name) ==
    [i \in DOMAIN name |->
        CASE name[i] = "Gemini-2.5" -> "gemini-2.5"
          [] name[i] = "-Pro" -> "-pro"
          [] OTHER -> name[i]]

includes(s, sub) == indexOf(s, sub, 0) >= 0

FamilyMarkers ==
    {<<"gemini-1.5">>, <<"gemini-2.0">>, <<"gemini-2.5">>, <<"claude-3-5">>,
     <<"claude-3-7">>, <<"claude-sonnet-4">>, <<"claude-opus-4">>}

isModelCompatible(cachedFamily, targetModel) ==
    IF cachedFamily = <<>> \/ targetModel = <<>> THEN TRUE
    ELSE Let(lowerCaseName(cachedFamily), LAMBDA c :
         Let(lowerCaseName(targetModel), LAMBDA t :
         IF c = t THEN TRUE
         ELSE \E m \in FamilyMarkers : includes(c, m) /\ includes(t, m)))

\* the entries the translator finds missing in the two maps it reads
NoFamily == [modelFamily |-> <<>>, timestamp |-> 0]
NoCachedSignature == [signature |-> <<>>, timestamp |-> 0]

\* Map.get under a key the map may not hold, then the expiry check
lookup(cache, key, absent) ==
    IF key \in DOMAIN cache THEN getEntry(cache, key, absent)
    ELSE [entry |-> absent, cache |-> cache]

\* the named tool_use blocks of the assistant's messages
namedToolUses(messages) ==
    UNION {Range(SelectSeq(messages[i].content,
                           LAMBDA part : part.type = "tool_use" /\ part.id # ""
                                         /\ part.name # "")) :
           i \in {k \in DOMAIN messages : messages[k].role = "assistant"
                                          /\ messages[k].kind = "array"}}

\* buildToolUseIdToNameMap: the pairs <<id, name>> (the pools below never
\* give one id two names)
buildToolUseIdToNameMap(messages) ==
    {<<part.id, part.name>> : part \in namedToolUses(messages)}

toolNameOf(toolUseIdToName, toolUseId) ==
    IF \E p \in toolUseIdToName : p[1] = toolUseId
    THEN (CHOOSE p \in toolUseIdToName : p[1] = toolUseId)[2]
    ELSE ""

(* convertAnthropicMessagesToGeminiContents.  The parts of one message are *)
(* gathered in acc = [parts, last, families, sessions]: last is            *)
(* lastAntigravityThoughtSignature, families and sessions are the two      *)
(* cache maps as the lookups made so far have left them.  The options are  *)
(* o = [vendor, stripThinking, sessionId, targetModel].                    *)

push(acc, part) == [acc EXCEPT !.parts = Append(@, part)]

\* signatureCache.getCachedSignature for the text of a thinking block; the
\* digest of the text is the key, written here as the text itself
cachedSignatureFor(sessions, sessionId, thinkingText) ==
    IF sessionId \notin DOMAIN sessions
    THEN [entry |-> NoCachedSignature, cache |-> sessions]
    ELSE Let(lookup(sessions[sessionId], thinkingText, NoCachedSignature), LAMBDA got :
             [entry |-> got.entry, cache |-> [sessions EXCEPT ![sessionId] = got.cache]])

\* the signature of a thinking block: its own when it is a valid token, else
\* the one cached for its text
signatureFor(sessions, part, sessionId) ==
    Let(sanitizeThoughtSignatureForAntigravity(part.signature), LAMBDA signature :
    IF signature = <<>> /\ sessionId # "" /\ ~shouldSkipText(part.text)
    THEN Let(cachedSignatureFor(sessions, sessionId, part.text), LAMBDA got :
             [signature |-> got.entry.signature, sessions |-> got.cache])
    ELSE [signature |-> signature, sessions |-> sessions])

\* signatureCache.getSignatureFamily, asked only for a signature and a target
familyFor(families, signature, targetModel) ==
    IF signature # <<>> /\ targetModel # <<>>
    THEN lookup(families, signature, NoFamily)
    ELSE [entry |-> NoFamily, cache |-> families]

\* faulty variant of dropsSignature: no family is a reason to drop
dropsSignatureNever(cachedFamily, targetModel) == FALSE

\* the signature is dropped: it has a family and the family does not fit
dropsSignature(cachedFamily, targetModel) ==
    cachedFamily # <<>> /\ ~isModelCompatible(cachedFamily, targetModel)

\* faulty variant of thoughtPartOf: a block with text is sent without a signature
thoughtPartOfUnsigned(acc, part, from, signature) ==
    IF shouldSkipText(part.text) /\ signature = <<>> THEN acc
    ELSE [push(acc, GeminiPart("thought",
                               IF ~shouldSkipText(part.text) THEN part.text ELSE <<>>,
                               TRUE, signature, "", "", from))
             EXCEPT !.last = signature]

\* the thought part of a thinking block, or nothing when it has no signature
thoughtPartOf(acc, part, from, signature) ==
    IF shouldSkipText(part.text) /\ signature = <<>> THEN acc
    ELSE IF signature = <<>> THEN acc
    ELSE [push(acc, GeminiPart("thought",
                               IF ~shouldSkipText(part.text) THEN part.text ELSE <<>>,
                               TRUE, signature, "", "", from))
             EXCEPT !.last = signature]

thinkingPartForAntigravity(acc, part, from, o) ==
    Let(signatureFor(acc.sessions, part, o.sessionId), LAMBDA sg :
    Let(familyFor(acc.families, sg.signature, o.targetModel), LAMBDA fam :
    Let([acc EXCEPT !.sessions = sg.sessions, !.families = fam.cache], LAMBDA acc1 :
    IF dropsSignature(fam.entry.modelFamily, o.targetModel)
    THEN IF ~shouldSkipText(part.text)
         THEN push(acc1, GeminiPart("text", part.text, FALSE, <<>>, "", "", from))
         ELSE acc1
    ELSE thoughtPartOf(acc1, part, from, sg.signature))))

\* one block of an array content; the response of a functionResponse part is
\* left out
convertBlock(acc, part, from, toolUseIdToName, o) ==
    CASE part.type = "text" ->
            IF ~shouldSkipText(part.text)
            THEN push(acc, GeminiPart("text", part.text, FALSE, <<>>, "", "", from))
            ELSE acc
      [] part.type \in {"thinking", "redacted_thinking"} ->
            IF o.stripThinking THEN acc
            ELSE IF o.vendor = "antigravity"
            THEN thinkingPartForAntigravity(acc, part, from, o)
            ELSE IF ~shouldSkipText(part.text)
            THEN push(acc, GeminiPart("text", part.text, FALSE, <<>>, "", "", from))
            ELSE acc
      [] part.type = "image" ->
            IF part.hasData
            THEN push(acc, GeminiPart("inlineData", <<>>, FALSE, <<>>, "", "", from))
            ELSE acc
      [] part.type = "tool_use" ->
            IF part.name = "" THEN acc
            ELSE IF o.vendor = "antigravity"
            THEN push(acc, GeminiPart("functionCall", <<>>, TRUE,
                                      IF acc.last # <<>> THEN acc.last
                                      ELSE THOUGHT_SIGNATURE_FALLBACK,
                                      part.name, part.id, from))
            ELSE push(acc, GeminiPart("functionCall", <<>>, FALSE, <<>>, part.name, "", from))
      [] part.type = "tool_result" ->
            IF toolNameOf(toolUseIdToName, part.id) = "" THEN acc
            ELSE push(acc, GeminiPart("functionResponse", <<>>, FALSE, <<>>,
                                      toolNameOf(toolUseIdToName, part.id),
                                      IF o.vendor = "antigravity" THEN part.id ELSE "",
                                      from))
      [] OTHER -> acc

RECURSIVE convertBlocks(_, _, _, _, _)
\* the blocks of content from position from on
convertBlocks(acc, content, from, toolUseIdToName, o) ==
    IF from > Len(content) THEN acc
    ELSE convertBlocks(convertBlock(acc, content[from], from, toolUseIdToName, o),
                      content, from + 1, toolUseIdToName, o)

\* the parts of one message
convertMessage(message, families, sessions, toolUseIdToName, o) ==
    Let([parts |-> <<>>, last |-> <<>>, families |-> families, sessions |-> sessions],
        LAMBDA acc :
        IF message.kind = "string"
        THEN IF ~shouldSkipText(message.text)
             THEN push(acc, GeminiPart("text", message.text, FALSE, <<>>, "", "", 0))
             ELSE acc
        ELSE convertBlocks(acc, message.content, 1, toolUseIdToName, o))

RECURSIVE convertFrom(_, _, _, _, _, _, _)
\* the messages from position i on: [contents, families, sessions]; an entry
\* of contents is [role, parts, message], message being the position of the
\* message it was made from
convertFrom(messages, i, contents, families, sessions, toolUseIdToName, o) ==
    IF i > Len(messages)
    THEN [contents |-> contents, families |-> families, sessions |-> sessions]
    ELSE Let(convertMessage(messages[i], families, sessions, toolUseIdToName, o),
             LAMBDA acc :
             convertFrom(messages, i + 1,
                         IF acc.parts = <<>> THEN contents
                         ELSE Append(contents,
                                     [role |-> IF messages[i].role = "assistant"
                                               THEN "model" ELSE "user",
                                      parts |-> acc.parts, message |-> i]),
                         acc.families, acc.sessions, toolUseIdToName, o))

convertAnthropicMessagesToGeminiContents(messages, toolUseIdToName, o, families, sessions) ==
    convertFrom(messages, 1, <<>>, families, sessions, toolUseIdToName, o)

\* the last message of the assistant, or 0
lastAssistantOf(messages) ==
    IF \E i \in DOMAIN messages : messages[i].role = "assistant"
    THEN CHOOSE i \in DOMAIN messages :
             /\ messages[i].role = "assistant"
             /\ \A j \in DOMAIN messages : messages[j].role = "assistant" => j <= i
    ELSE 0

canEnableAntigravityThinking(messages) ==
    IF messages = <<>> THEN TRUE
    ELSE IF \E i \in DOMAIN messages :
                /\ messages[i].role = "assistant"
                /\ messages[i].kind = "array"
                /\ \E j \in DOMAIN messages[i].content :
                      /\ messages[i].content[j].type \in {"thinking", "redacted_thinking"}
                      /\ sanitizeThoughtSignatureForAntigravity(
                             messages[i].content[j].signature) = <<>>
    THEN FALSE
    ELSE Let(lastAssistantOf(messages), LAMBDA last :
         IF last = 0 THEN TRUE
         ELSE IF messages[last].kind # "array" \/ messages[last].content = <<>> THEN TRUE
         ELSE IF ~\E j \in DOMAIN messages[last].content :
                     messages[last].content[j].type \in {"tool_use", "tool_result"}
         THEN TRUE
         ELSE messages[last].content[1].type \in {"thinking", "redacted_thinking"})

(* Inputs of the translator *)

SignatureA == <<"A", "A", "A", "A", "A", "A", "A", "A">>
SignatureB == <<"B", "B", "B", "B", "B", "B", "B", "B">>
SignatureC == <<"C", "C", "C", "C", "C", "C", "C", "C">>
\* SignatureA with a blank inside, and a token that is too short
SpacedSignatureA == <<"A", "A", "A", "A", " ", "A", "A", "A", "A">>
ShortSignature == <<"A", "A", "A">>

ThinkText == <<"t">>
ReminderText == SYSTEM_REMINDER_PREFIX \o <<"x">>

Thinking(thinking, signature) ==
    AnthropicBlock("thinking", thinking, signature, "", "", FALSE)

ThinkingVariants ==
    {Thinking(ThinkText, SignatureA), Thinking(ThinkText, SpacedSignatureA),
     Thinking(ThinkText, <<>>), Thinking(<<>>, SignatureA), Thinking(<<>>, <<>>),
     Thinking(ThinkText, ShortSignature), Thinking(ReminderText, SignatureA),
     Thinking(ThinkText, SignatureB),
     AnthropicBlock("redacted_thinking", <<>>, <<>>, "", "", FALSE)}

ReadToolUse == AnthropicBlock("tool_use", <<>>, <<>>, "t1", "Read", FALSE)

\* the user's answer to the tool call, with a text, a reminder and an image
ToolReply ==
    ArrayMessage("user", <<AnthropicBlock("tool_result", <<>>, <<>>, "t1", "", FALSE),
                           AnthropicBlock("tool_result", <<>>, <<>>, "t2", "", FALSE),
                           AnthropicBlock("text", TxtA, <<>>, "", "", FALSE),
                           AnthropicBlock("text", ReminderText, <<>>, "", "", FALSE),
                           AnthropicBlock("image", <<>>, <<>>, "", "", TRUE)>>)

TranslatedMessages ==
    { <<ArrayMessage(role, thinking \o tools)>> \o reply :
        role \in {"assistant", "user"},
        thinking \in SeqsUpTo(ThinkingVariants, MaxThinkingBlocks),
        tools \in {<<>>, <<ReadToolUse>>},
        reply \in {<<>>, <<ToolReply>>, <<StringMessage("user", TxtA)>>} }

SonnetFamily == <<"claude-sonnet-4">>
GeminiFamily == <<"gemini-2.5">>
TargetModels == {<<"claude-sonnet-4", "-5">>, <<"Gemini-2.5", "-Pro">>}

\* signature -> [modelFamily, timestamp]: what earlier responses recorded
FamilyMap(a, b, c) ==
    [sig \in {SignatureA, SignatureB, SignatureC} |->
        [modelFamily |-> IF sig = SignatureA THEN a ELSE IF sig = SignatureB THEN b ELSE c,
         timestamp |-> 0]]

FamilyMaps ==
    {FamilyMap(<<>>, <<>>, <<>>), FamilyMap(SonnetFamily, <<>>, <<>>),
     FamilyMap(GeminiFamily, <<>>, <<>>), FamilyMap(SonnetFamily, GeminiFamily, GeminiFamily),
     FamilyMap(GeminiFamily, <<>>, SonnetFamily)}

\* sessionId -> text -> [signature, timestamp]
SessionMap(signature) ==
    [sessionId \in {"s1"} |->
        [text \in {ThinkText} |-> [signature |-> signature, timestamp |-> 0]]]

\* the times at which an entry written at 0 is at the end of its life, and past it
TranslateTimes == {SIGNATURE_CACHE_TTL_MS, SIGNATURE_CACHE_TTL_MS + 1}

(* The state machine of the translator *)

InitTranslator ==
    /\ StreamIdle
    /\ ControllerIdle
    /\ CacheEmpty
    /\ CapIdle
    /\ NormIdle
    /\ FunctionsIdle
    /\ modelUnavailableCooldowns = [m \in Models |-> NoCooldown]
    /\ rq = IdleRequest
    /\ env = DefaultEnv
    /\ now \in TranslateTimes
    /\ \E messages \in TranslatedMessages, vendor \in Vendors, thinkingEnabled \in BOOLEAN,
          session \in {<<"", <<>>>>, <<"s1", <<>>>>, <<"s1", SignatureC>>},
          targetModel \in TargetModels, families \in FamilyMaps :
          /\ vendor # "antigravity" =>
                /\ ~thinkingEnabled
                /\ session = <<"", <<>>>>
                /\ families = FamilyMap(<<>>, <<>>, <<>>)
                /\ now = SIGNATURE_CACHE_TTL_MS
          /\ tr = [stage |-> "normalized", vendor |-> vendor,
                   thinkingEnabled |-> thinkingEnabled, sessionId |-> session[1],
                   targetModel |-> targetModel, messages |-> messages,
                   families |-> families, sessions |-> SessionMap(session[2]),
                   stripThinking |-> FALSE, contents |-> <<>>, back |-> <<>>]

otherThanTranslator ==
    <<streamVars, transportVars, controllerVars, cacheVars, capVars, nz, fcall>>

\* the two handlers from the normalized messages to the contents: whether
\* thinking can be enabled, then the translation
ConvertContents ==
    /\ tr.stage = "normalized"
    /\ Let(tr.vendor = "antigravity"
             /\ ~(tr.thinkingEnabled /\ canEnableAntigravityThinking(tr.messages)),
           LAMBDA stripThinking :
           Let(convertAnthropicMessagesToGeminiContents(
                   tr.messages, buildToolUseIdToNameMap(tr.messages),
                   [vendor |-> tr.vendor, stripThinking |-> stripThinking,
                    sessionId |-> tr.sessionId, targetModel |-> tr.targetModel],
                   tr.families, tr.sessions),
               LAMBDA built :
               tr' = [tr EXCEPT !.stage = "converted", !.stripThinking = stripThinking,
                                !.contents = built.contents,
                                !.families = built.families,
                                !.sessions = built.sessions]))
    /\ UNCHANGED otherThanTranslator

\* a backend part as the payload part a response would hold
asPayloadPart(part) ==
    CASE part.kind = "thought" -> ThoughtPart(part.text, part.sig)
      [] part.kind = "text" -> TextPart(part.text)
      [] part.kind = "functionCall" ->
            [FcPart(FcObj(part.name, part.id, EmptyObj), part.sig)
                EXCEPT !.thought = part.thought]
      [] OTHER -> TextPart(<<>>)

\* the parts of each entry of the contents, read back as a response payload
ConvertBack ==
    /\ tr.stage = "converted"
    /\ tr' = [tr EXCEPT !.stage = "returned",
                        !.back = [i \in DOMAIN tr.contents |->
                                     convertGeminiPayloadToAnthropicContent(
                                         Payload(FALSE, "",
                                                 [j \in DOMAIN tr.contents[i].parts |->
                                                     asPayloadPart(tr.contents[i].parts[j])]))]]
    /\ UNCHANGED otherThanTranslator

NextTranslator == ConvertContents \/ ConvertBack

SpecTranslator == InitTranslator /\ [][NextTranslator]_vars

-----------------------------------------------------------------------------
(* The contents the translator builds                                      *)

Converted == tr.stage \in {"converted", "returned"}

ConvertedForAntigravity == Converted /\ tr.vendor = "antigravity"

\* the block a part of an entry of the contents was made from
blockOf(entry, part) == tr.messages[entry.message].content[part.from]

\* the signature cached for the text of a block and still alive, or <<>>
liveCachedSignature(block) ==
    IF /\ tr.sessionId \in DOMAIN tr.sessions
       /\ ~shouldSkipText(block.text)
       /\ block.text \in DOMAIN tr.sessions[tr.sessionId]
       /\ ~isExpired(tr.sessions[tr.sessionId][block.text].timestamp)
    THEN tr.sessions[tr.sessionId][block.text].signature
    ELSE <<>>

\* the signature a thinking block can be sent with: its own when that is a
\* valid token, else the cached one
usableSignature(block) ==
    IF sanitizeThoughtSignatureForAntigravity(block.signature) # <<>>
    THEN sanitizeThoughtSignatureForAntigravity(block.signature)
    ELSE liveCachedSignature(block)

\* C29: in the contents built for antigravity a part has a thoughtSignature
\* exactly if it has thought:true, and a part made from a thinking block is a
\* thought part only if the block has a usable signature, which it carries
C29_SignedPartsAreThoughtParts ==
    ConvertedForAntigravity =>
        \A i \in DOMAIN tr.contents : \A j \in DOMAIN tr.contents[i].parts :
            Let(tr.contents[i].parts[j], LAMBDA part :
                /\ part.sig # <<>> <=> part.thought
                /\ part.kind = "thought" =>
                      /\ part.thought
                      /\ usableSignature(blockOf(tr.contents[i], part)) # <<>>
                      /\ part.sig = usableSignature(blockOf(tr.contents[i], part)))

\* C29 witness: thinking is not stripped, and one message gave a thought
\* part and a functionCall part while a thinking block with text but without
\* a usable signature gave no part
C29_UnsignedThinkingOmitted ==
    /\ ConvertedForAntigravity
    /\ ~tr.stripThinking
    /\ \E i \in DOMAIN tr.contents :
          /\ \E j \in DOMAIN tr.contents[i].parts : tr.contents[i].parts[j].kind = "thought"
          /\ \E j \in DOMAIN tr.contents[i].parts :
                tr.contents[i].parts[j].kind = "functionCall"
          /\ \E k \in DOMAIN tr.messages[tr.contents[i].message].content :
                Let(tr.messages[tr.contents[i].message].content[k], LAMBDA block :
                    /\ block.type = "thinking"
                    /\ ~shouldSkipText(block.text)
                    /\ usableSignature(block) = <<>>
                    /\ \A j \in DOMAIN tr.contents[i].parts :
                          tr.contents[i].parts[j].from # k)

\* the family recorded for a signature and still alive, or <<>>
recordedFamily(signature) ==
    IF /\ signature \in DOMAIN tr.families
       /\ tr.families[signature] # NoFamily
       /\ ~isExpired(tr.families[signature].timestamp)
    THEN tr.families[signature].modelFamily
    ELSE <<>>

\* a thinking block whose signature was recorded under a family that does
\* not fit the target model
isForeignThinking(block) ==
    /\ block.type \in {"thinking", "redacted_thinking"}
    /\ usableSignature(block) # <<>>
    /\ recordedFamily(usableSignature(block)) # <<>>
    /\ ~isModelCompatible(recordedFamily(usableSignature(block)), tr.targetModel)

\* the parts of the contents made from block k of message m
partsFrom(m, k) ==
    {part \in UNION {Range(tr.contents[i].parts) :
                        i \in {c \in DOMAIN tr.contents : tr.contents[c].message = m}} :
        part.from = k}

\* the signature of a foreign block is on no part made from it and on no
\* functionCall part made from a later block of its message
foreignSignatureNotSent(m, k) ==
    Let(tr.messages[m].content[k], LAMBDA block :
        /\ \A part \in partsFrom(m, k) : ~part.thought /\ part.sig = <<>>
        /\ \A later \in DOMAIN tr.messages[m].content :
              later > k =>
                 \A part \in partsFrom(m, later) :
                    part.kind = "functionCall" => part.sig # usableSignature(block))

\* the blocks of the array contents: <<message, block>>
blockPositions ==
    {mk \in (DOMAIN tr.messages) \X (1..(MaxThinkingBlocks + 1)) :
        /\ tr.messages[mk[1]].kind = "array"
        /\ mk[2] \in DOMAIN tr.messages[mk[1]].content}

\* C30 as stated: the signature of a foreign thinking block is not sent, and
\* the block is sent as a text part if it has text and omitted if it has none
C30_ForeignThinkingSentAsText ==
    Converted =>
        \A mk \in blockPositions :
            Let(tr.messages[mk[1]].content[mk[2]], LAMBDA block :
                isForeignThinking(block) =>
                    /\ foreignSignatureNotSent(mk[1], mk[2])
                    /\ IF block.text # <<>>
                       THEN partsFrom(mk[1], mk[2]) =
                                {GeminiPart("text", block.text, FALSE, <<>>, "", "", mk[2])}
                       ELSE partsFrom(mk[1], mk[2]) = {})

\* C30: the signature of a foreign thinking block is not sent; the block is
\* sent as a text part if thinking is not stripped and its text is one that
\* is forwarded, and omitted otherwise
C30_ForeignSignatureDropped ==
    Converted =>
        \A mk \in blockPositions :
            Let(tr.messages[mk[1]].content[mk[2]], LAMBDA block :
                isForeignThinking(block) =>
                    /\ foreignSignatureNotSent(mk[1], mk[2])
                    /\ IF ~tr.stripThinking /\ ~shouldSkipText(block.text)
                       THEN partsFrom(mk[1], mk[2]) =
                                {GeminiPart("text", block.text, FALSE, <<>>, "", "", mk[2])}
                       ELSE partsFrom(mk[1], mk[2]) = {})

\* C30 witness: a foreign thinking block was sent as text, after a thinking
\* block that was sent as a thought part and before a functionCall part that
\* carries the signature of the earlier block
C30_ForeignThinkingDegraded ==
    /\ ConvertedForAntigravity
    /\ ~tr.stripThinking
    /\ \E mk \in blockPositions :
          /\ mk[2] = 2
          /\ isForeignThinking(tr.messages[mk[1]].content[2])
          /\ \E part \in partsFrom(mk[1], 1) : part.kind = "thought"
          /\ \E part \in partsFrom(mk[1], 2) : part.kind = "text"
          /\ \E part \in partsFrom(mk[1], 3) :
                /\ part.kind = "functionCall"
                /\ part.sig = usableSignature(tr.messages[mk[1]].content[1])

-----------------------------------------------------------------------------
(* The round trip of a thinking block                                      *)

\* a signature that is a token as it stands
isToken(signature) ==
    signature # <<>> /\ sanitizeThoughtSignatureForAntigravity(signature) = signature

\* the thought parts of the contents made from thinking blocks: <<entry, part>>
thoughtPartPositions ==
    {ij \in (DOMAIN tr.contents) \X (1..(MaxThinkingBlocks + 1)) :
        /\ ij[2] \in DOMAIN tr.contents[ij[1]].parts
        /\ tr.contents[ij[1]].parts[ij[2]].kind = "thought"}

\* entry i came back with a thinking block of this text and signature
cameBack(i, thinking, signature) ==
    \E k \in DOMAIN tr.back[i] :
        /\ tr.back[i][k].type = "thinking"
        /\ tr.back[i][k].text = thinking
        /\ tr.back[i][k].signature = signature

\* C31 as stated: a thinking block whose signature is a token, sent as a
\* thought part, comes back with the same thinking text and signature
C31_RoundTripExact ==
    tr.stage = "returned" =>
        \A ij \in thoughtPartPositions :
            Let(blockOf(tr.contents[ij[1]], tr.contents[ij[1]].parts[ij[2]]), LAMBDA block :
                isToken(block.signature) =>
                    cameBack(ij[1], block.text, block.signature))

\* C31: a thinking block with a signature the translator accepts, sent as a
\* thought part, comes back with that signature without its blanks, and with
\* its thinking text unless that is a text the translator does not forward,
\* which comes back empty
C31_RoundTripCleaned ==
    tr.stage = "returned" =>
        \A ij \in thoughtPartPositions :
            Let(blockOf(tr.contents[ij[1]], tr.contents[ij[1]].parts[ij[2]]), LAMBDA block :
                sanitizeThoughtSignatureForAntigravity(block.signature) # <<>> =>
                    cameBack(ij[1],
                             IF shouldSkipText(block.text) THEN <<>> ELSE block.text,
                             sanitizeThoughtSignatureForAntigravity(block.signature)))

\* C31 witness: a thinking block with text and a token came back as it was,
\* and one whose signature holds a blank came back without the blank
C31_ThinkingCameBack ==
    /\ tr.stage = "returned"
    /\ \E ij \in thoughtPartPositions :
          /\ blockOf(tr.contents[ij[1]], tr.contents[ij[1]].parts[ij[2]])
                = Thinking(ThinkText, SignatureA)
          /\ cameBack(ij[1], ThinkText, SignatureA)
    /\ \E ij \in thoughtPartPositions :
          /\ blockOf(tr.contents[ij[1]], tr.contents[ij[1]].parts[ij[2]])
                = Thinking(ThinkText, SpacedSignatureA)
          /\ cameBack(ij[1], ThinkText, SignatureA)

-----------------------------------------------------------------------------
(* C32: the text deltas of a stream of cumulative chunks                   *)

\* the text of the text_delta events, joined in the order they were written
TextOf(out) == joinTexts(SelectSeq(out, LAMBDA e : IsDelta(e, "text_delta")))

\* the text_delta text written by the step
TextWritten == TextOf(SubSeq(st'.out, Len(st.out) + 1, Len(st'.out)))

\* a chunk was handled and its text became the recorded value
TextChunkHandled ==
    /\ up = "open" /\ up' = "open"
    /\ nChunks' = nChunks + 1
    /\ st'.emittedText # st.emittedText

\* what a chunk's text adds to the recorded value, or the text itself when it
\* does not extend it
SuffixOrWhole(full, emitted) ==
    IF Len(emitted) <= Len(full) /\ SubSeq(full, 1, Len(emitted)) = emitted
    THEN SubSeq(full, Len(emitted) + 1, Len(full))
    ELSE full

\* no MCP tag is open and the step's delta opens none
OutsideMcpXml ==
    /\ ~st.inMcpXml
    /\ indexOf(SuffixOrWhole(st'.emittedText, st.emittedText), McpOpen, 0) = -1

\* C32 as stated: a chunk whose text extends the recorded value has the added
\* characters written as text_delta, so the text deltas written so far stay
\* equal to the cumulative text; a chunk whose text does not extend it has
\* its whole text written
C32_TextDeltasFollowChunks ==
    [][TextChunkHandled =>
          /\ TextWritten = SuffixOrWhole(st'.emittedText, st.emittedText)
          /\ (TextOf(st.out) = st.emittedText
                /\ startsWith(st'.emittedText, st.emittedText))
             => TextOf(st'.out) = st'.emittedText]_vars

\* C32: the same, for chunks handled while no MCP tag is open and whose
\* delta opens none
C32_TextDeltasFollowChunksOutsideMcp ==
    [][(TextChunkHandled /\ OutsideMcpXml) =>
          /\ TextWritten = SuffixOrWhole(st'.emittedText, st.emittedText)
          /\ (TextOf(st.out) = st.emittedText
                /\ startsWith(st'.emittedText, st.emittedText))
             => TextOf(st'.out) = st'.emittedText]_vars

\* C32 witness: "Hi" then "Hi!" arrived and the client got "Hi" and "!"
C32_HiThenBang ==
    /\ st.emittedText = TxtHiBang
    /\ TextOf(st.out) = TxtHiBang
    /\ \E i \in 1..Len(st.out) : IsDelta(st.out[i], "text_delta") /\ st.out[i].text = TxtHi
    /\ \E i \in 1..Len(st.out) : IsDelta(st.out[i], "text_delta") /\ st.out[i].text = <<"!">>

-----------------------------------------------------------------------------
(* C33: Grep called with {"query":"foo"}                                   *)

\* every tool_use block named Grep is followed by its input, and that is json
GrepInputIs(json) ==
    \A i \in 1..Len(st.out) :
        (IsStart(st.out[i], "tool_use") /\ st.out[i].name = "Grep") =>
            /\ i < Len(st.out)
            /\ IsDelta(st.out[i + 1], "input_json_delta")
            /\ st.out[i + 1].json = json

\* C33 as stated: the input of a Grep tool_use the backend called with
\* {"query":"foo"} is {"pattern":"foo"} and nothing else
C33_GrepInputIsPatternOnly ==
    GrepInputIs(<<<<"pattern", StrVal("foo")>>>>)

\* C33: the input of a Grep tool_use the backend called with {"query":"foo"}
\* is {"path":".","pattern":"foo"}: no query key, and the default path added
C33_GrepInputIsPatternAndPath ==
    GrepInputIs(<<<<"path", StrVal(".")>>, <<"pattern", StrVal("foo")>>>>)

\* C33 witness: a Grep tool_use block has been written from a streamed chunk
C33_GrepEmitted ==
    /\ st.rescueCalls = <<>>
    /\ \E i \in 1..Len(st.out) :
          IsStart(st.out[i], "tool_use") /\ st.out[i].name = "Grep"

-----------------------------------------------------------------------------
(* Part 8: functions checked on their own.  fcall holds the name of the    *)
(* function, its input and, once it has returned, its result.              *)

(* sanitizeToolResultBlocksForAntigravity.  A block of a tool result is    *)
(* [type, base64, chars, omitted]: base64 says that an image block has a   *)
(* base64 source with string data, chars is the length of the text of a    *)
(* text block (plain text, with no tag or brace to back up to), omitted    *)
(* marks the text block that says an image was left out.                   *)

ResultBlock(type, base64, chars, omitted) ==
    [type |-> type, base64 |-> base64, chars |-> chars, omitted |-> omitted]

\* '[image omitted to fit Antigravity prompt limits; use the file path in the
\* previous text block]'
ImageOmittedBlock == ResultBlock("text", FALSE, 94, TRUE)

\* the length of compactToolResultTextForAntigravity(text, maxChars) for a
\* plain text that is neither HTML, nor a saved-output notice, nor a snapshot
compactedChars(chars, maxChars) ==
    IF chars = 0 \/ maxChars <= 0 THEN 0
    ELSE IF chars <= maxChars THEN chars
    ELSE maxChars

\* one turn of the loop; acc = [cleaned, usedChars, removedImage, broke]
sanitizeBlock(acc, block) ==
    IF acc.broke THEN acc
    ELSE IF block.type = "image" /\ block.base64
    THEN [acc EXCEPT !.removedImage = TRUE]
    ELSE IF block.type = "text"
    THEN IF MAX_ANTIGRAVITY_TOOL_RESULT_CHARS - acc.usedChars <= 0
         THEN [acc EXCEPT !.broke = TRUE]
         ELSE Let(compactedChars(block.chars,
                                 MAX_ANTIGRAVITY_TOOL_RESULT_CHARS - acc.usedChars),
                  LAMBDA chars :
                  [acc EXCEPT !.cleaned = Append(@, [block EXCEPT !.chars = chars]),
                              !.usedChars = @ + chars])
    ELSE [acc EXCEPT !.cleaned = Append(@, block),
                     !.usedChars = @ + 100,
                     !.broke = acc.usedChars + 100 >= MAX_ANTIGRAVITY_TOOL_RESULT_CHARS]

RECURSIVE sanitizeBlocks(_, _)
sanitizeBlocks(acc, blocks) ==
    IF blocks = <<>> THEN acc
    ELSE sanitizeBlocks(sanitizeBlock(acc, Head(blocks)), Tail(blocks))

sanitizeToolResultBlocksForAntigravity(blocks) ==
    Let(sanitizeBlocks([cleaned |-> <<>>, usedChars |-> 0, removedImage |-> FALSE,
                        broke |-> FALSE], blocks),
        LAMBDA acc :
        IF acc.removedImage THEN Append(acc.cleaned, ImageOmittedBlock) ELSE acc.cleaned)

ToolResultBlocks ==
    {ResultBlock("image", TRUE, 0, FALSE), ResultBlock("image", FALSE, 0, FALSE),
     ResultBlock("text", FALSE, 1, FALSE),
     ResultBlock("text", FALSE, MAX_ANTIGRAVITY_TOOL_RESULT_CHARS + 1, FALSE),
     ResultBlock("resource", FALSE, 0, FALSE)}

(* googleErrorParser.js.  The file holds its functions twice, and a later  *)
(* function declaration replaces an earlier one of the same name in the    *)
(* scope of the module: what the module exports are the later ones.  An    *)
(* error body is the parsed object                                         *)
(*   [code, status, message, hasDetails, details]                          *)
(* with details a sequence of [type, retryDelay, quotaResetDelay, reason,  *)
(* metadataReason]; a field that is missing is "" or <<>>.                 *)

Digits == <<"0", "1", "2", "3", "4", "5", "6", "7", "8", "9">>
isDigit(c) == \E i \in 1..10 : Digits[i] = c
digitValue(c) == (CHOOSE i \in 1..10 : Digits[i] = c) - 1

RECURSIVE digitsPrefix(_)
\* the digits a text starts with
digitsPrefix(str) ==
    IF str # <<>> /\ isDigit(Head(str)) THEN <<Head(str)>> \o digitsPrefix(Tail(str))
    ELSE <<>>

RECURSIVE parseInt(_)
\* the number a sequence of digits writes
parseInt(digits) ==
    IF digits = <<>> THEN 0
    ELSE 10 * parseInt(SubSeq(digits, 1, Len(digits) - 1)) + digitValue(digits[Len(digits)])

RECURSIVE pow10(_)
pow10(k) == IF k = 0 THEN 1 ELSE 10 * pow10(k - 1)

\* parseFloat of a text without sign and exponent: [nan, digits, scale], the
\* value being digits / 10^scale
parseFloat(str) ==
    Let(digitsPrefix(str), LAMBDA whole :
    Let(sliceFrom(str, Len(whole)), LAMBDA rest :
    Let(IF rest # <<>> /\ Head(rest) = "." THEN digitsPrefix(Tail(rest)) ELSE <<>>,
        LAMBDA fraction :
        [nan |-> whole = <<>> /\ fraction = <<>>,
         digits |-> parseInt(whole \o fraction),
         scale |-> Len(fraction)])))

\* Math.round(a / b) for a >= 0 and b > 0
roundedQuotient(a, b) == (2 * a + b) \div (2 * b)

\* toLowerCase over the capital letters the texts hold
lowerCaseChars(str) ==
    [i \in DOMAIN str |->
        CASE str[i] = "A" -> "a" [] str[i] = "E" -> "e" [] str[i] = "F" -> "f"
          [] str[i] = "M" -> "m" [] str[i] = "R" -> "r" [] str[i] = "S" -> "s"
          [] str[i] = "T" -> "t"
          [] OTHER -> str[i]]

endsWith(str, suffix) ==
    Len(suffix) <= Len(str) /\ SubSeq(str, Len(str) - Len(suffix) + 1, Len(str)) = suffix

\* null is -1
parseDurationToMsSecondsOnly(durationStr) ==
    Let(lowerCaseChars(trim(durationStr)), LAMBDA str :
    IF endsWith(str, <<"s">>)
          /\ ~parseFloat(SubSeq(str, 1, Len(str) - 1)).nan
    THEN Let(parseFloat(SubSeq(str, 1, Len(str) - 1)), LAMBDA num :
             roundedQuotient(num.digits * 1000, pow10(num.scale)))
    ELSE -1)

\* null is -1
parseDurationToMs(durationStr) ==
    Let(lowerCaseChars(trim(durationStr)), LAMBDA str :
    IF str = <<>> THEN -1
    ELSE IF endsWith(str, <<"s">>) /\ ~endsWith(str, <<"m", "s">>)
            /\ ~parseFloat(SubSeq(str, 1, Len(str) - 1)).nan
    THEN Let(parseFloat(SubSeq(str, 1, Len(str) - 1)), LAMBDA num :
             roundedQuotient(num.digits * 1000, pow10(num.scale)))
    ELSE IF endsWith(str, <<"m", "s">>) /\ ~parseFloat(SubSeq(str, 1, Len(str) - 2)).nan
    THEN Let(parseFloat(SubSeq(str, 1, Len(str) - 2)), LAMBDA num :
             roundedQuotient(num.digits, pow10(num.scale)))
    ELSE -1)

\* the first delay that parses among the details of one type, or -1
firstDelay(details, type, field) ==
    Let(SelectSeq(details, LAMBDA detail :
            /\ detail.type = type
            /\ detail[field] # <<>>
            /\ parseDurationToMs(detail[field]) # -1),
        LAMBDA found :
        IF found = <<>> THEN -1 ELSE parseDurationToMs(found[1][field]))

\* the places where /after\s+(\d+)s/i matches: <<start, first digit, end of digits>>
afterMatches(message) ==
    {m \in (1..Len(message)) \X (1..Len(message)) \X (1..Len(message)) :
        /\ m[1] + 5 < m[2] /\ m[2] <= m[3] /\ m[3] < Len(message)
        /\ lowerCaseChars(SubSeq(message, m[1], m[1] + 4)) = <<"a", "f", "t", "e", "r">>
        /\ \A i \in (m[1] + 5)..(m[2] - 1) : message[i] \in Whitespace
        /\ \A i \in m[2]..m[3] : isDigit(message[i])
        /\ ~isDigit(message[m[3] + 1])
        /\ lowerCaseChars(<<message[m[3] + 1]>>) = <<"s">>}

\* the seconds of the first match, or -1
afterSeconds(message) ==
    IF afterMatches(message) = {} THEN -1
    ELSE Let(CHOOSE m \in afterMatches(message) :
                 \A other \in afterMatches(message) : m[1] <= other[1],
             LAMBDA m : parseInt(SubSeq(message, m[2], m[3])))

\* null is -1
parseGoogleRetryDelayMs(body) ==
    IF body.hasDetails /\ firstDelay(body.details, "RetryInfo", "retryDelay") # -1
    THEN firstDelay(body.details, "RetryInfo", "retryDelay")
    ELSE IF body.hasDetails /\ firstDelay(body.details, "ErrorInfo", "quotaResetDelay") # -1
    THEN firstDelay(body.details, "ErrorInfo", "quotaResetDelay")
    ELSE IF afterSeconds(body.message) # -1 THEN afterSeconds(body.message) * 1000
    ELSE -1

\* the reason the details name, or "" for null
reasonOfDetails(details) ==
    Let(SelectSeq(details, LAMBDA detail : detail.reason # "" \/ detail.metadataReason # ""),
        LAMBDA found :
        IF found = <<>> THEN ""
        ELSE IF found[1].reason # "" THEN found[1].reason ELSE found[1].metadataReason)

ResourceExhaustedMessage == <<"R", "e", "s", "o", "u", "r", "c", "e", " ", "h", "a", "s", " ", "b", "e", "e", "n", " ", "e", "x", "h", "a", "u", "s", "t", "e", "d">>

\* the first declaration of parseGoogleErrorReason, which the second replaces
parseGoogleErrorReasonFirst(body) ==
    IF ~body.hasDetails
    THEN IF body.code = 429 /\ body.status = "RESOURCE_EXHAUSTED" THEN "RESOURCE_EXHAUSTED"
         ELSE IF body.code = 429
                 /\ includes(lowerCaseChars(body.message),
                             lowerCaseChars(ResourceExhaustedMessage))
         THEN "RESOURCE_EXHAUSTED"
         ELSE ""
    ELSE reasonOfDetails(body.details)

\* the second declaration, the one the module exports
parseGoogleErrorReason(body) ==
    IF ~body.hasDetails THEN ""
    ELSE reasonOfDetails(body.details)

(* antigravityClient.js: the endpoints of one request, in the order in     *)
(* which request() tries them.  A URL is a sequence of its parts.          *)

DailyUrl == <<"https://", "daily-", "cloudcode-pa.", "googleapis.com">>
ProdUrl == <<"https://", "cloudcode-pa.", "googleapis.com">>
DailySandboxUrl == <<"https://", "daily-", "cloudcode-pa.", "sandbox.", "googleapis.com">>
CustomUrl == <<"https://", "relay.example">>

\* process.env.ANTIGRAVITY_API_URL unset is <<>>
getAntigravityApiUrl(configuredUrl) ==
    IF configuredUrl # <<>> THEN configuredUrl ELSE DailyUrl

getAntigravityApiUrlCandidates(configuredUrl, allowFallback) ==
    Let(getAntigravityApiUrl(configuredUrl), LAMBDA configured :
    Let(<<DailyUrl, ProdUrl, DailySandboxUrl>>, LAMBDA defaults :
        IF configuredUrl # <<>> /\ ~allowFallback THEN <<configured>>
        ELSE <<configured>> \o SelectSeq(defaults, LAMBDA u : u # configured)))

RECURSIVE withoutRepeats(_)
\* Array.from(new Set(list))
withoutRepeats(list) ==
    IF list = <<>> THEN <<>>
    ELSE Let(withoutRepeats(SubSeq(list, 1, Len(list) - 1)), LAMBDA before :
             IF list[Len(list)] \in Range(before) THEN before
             ELSE Append(before, list[Len(list)]))

endpointScore(url) ==
    IF includes(url, <<"cloudcode-pa.", "googleapis.com">>) THEN 0
    ELSE IF includes(url, <<"daily-", "cloudcode-pa.", "sandbox.", "googleapis.com">>) THEN 1
    ELSE 2

orderedEndpoints(configuredUrl, allowFallback, model) ==
    Let(getAntigravityApiUrlCandidates(configuredUrl, allowFallback), LAMBDA endpoints :
        IF configuredUrl = <<>> /\ includes(model, <<"claude">>)
        THEN Let(withoutRepeats(
                     SelectSeq(endpoints, LAMBDA u :
                         includes(u, <<"cloudcode-pa.", "googleapis.com">>))
                     \o SelectSeq(endpoints, LAMBDA u :
                         ~includes(u, <<"cloudcode-pa.", "googleapis.com">>))),
                 LAMBDA ordered :
                     SelectSeq(ordered, LAMBDA u : endpointScore(u) = 0)
                     \o SelectSeq(ordered, LAMBDA u : endpointScore(u) = 1)
                     \o SelectSeq(ordered, LAMBDA u : endpointScore(u) = 2))
        ELSE endpoints)

(* The forced rescue request and the envelope built around it.  A request  *)
(* payload is [tools, mode, allowedFunctionNames]; mode "" is a payload    *)
(* without toolConfig.                                                     *)

RequestPayload(tools, mode, allowed) ==
    [tools |-> tools, mode |-> mode, allowedFunctionNames |-> allowed]

forcedRequestData(request, plannedToolName) ==
    [request EXCEPT !.mode = "ANY", !.allowedFunctionNames = <<plannedToolName>>]

normalizeAntigravityEnvelope(request) ==
    IF Len(request.tools) > 0 /\ request.mode # "NONE"
    THEN [request EXCEPT !.mode = "VALIDATED"]
    ELSE request

(* The inputs *)

RetryInfo(delay) ==
    [type |-> "RetryInfo", retryDelay |-> delay, quotaResetDelay |-> <<>>,
     reason |-> "", metadataReason |-> ""]
ErrorInfo(delay, reason, metadataReason) ==
    [type |-> "ErrorInfo", retryDelay |-> <<>>, quotaResetDelay |-> delay,
     reason |-> reason, metadataReason |-> metadataReason]
ErrorBody(code, status, message, hasDetails, details) ==
    [code |-> code, status |-> status, message |-> message,
     hasDetails |-> hasDetails, details |-> details]

Durations ==
    {<<"2", ".", "5", "s">>, <<"7", "s">>, <<"0", ".", "8", "5", "s">>, <<"3", "7", "3", "m", "s">>, <<"3", "7", "3", ".", "8", "m", "s">>, <<" ", "3", "S", " ">>, <<"1", ".", "5", "M", "S">>, <<"s", "o", "o", "n">>, <<"s">>, <<"1", "m">>}
ErrorDetails ==
    {RetryInfo(d) : d \in {<<"2", ".", "5", "s">>, <<"3", "7", "3", ".", "8", "m", "s">>, <<" ", "3", "S", " ">>, <<"s", "o", "o", "n">>, <<>>}}
    \cup {ErrorInfo(d, "", "") :
            d \in {<<"0", ".", "8", "5", "s">>, <<"3", "7", "3", "m", "s">>, <<"1", "m">>, <<>>}}
    \cup {ErrorInfo(<<>>, "RATE_LIMIT_EXCEEDED", ""), ErrorInfo(<<>>, "", "QUOTA_EXHAUSTED")}
ErrorMessages ==
    {<<>>, <<"R", "e", "t", "r", "y", " ", "a", "f", "t", "e", "r", " ", "1", "2", "s", ".">>, <<"r", "e", "s", "e", "t", " ", "A", "F", "T", "E", "R", " ", " ", "4", "S">>, <<"a", "f", "t", "e", "r", " ", "3", "m">>, <<"a", "f", "t", "e", "r", " ", "s">>,
     ResourceExhaustedMessage}
ErrorBodies ==
    {ErrorBody(c[1], c[2], message, details[1], details[2]) :
        c \in {<<429, "RESOURCE_EXHAUSTED">>, <<429, "">>, <<400, "RESOURCE_EXHAUSTED">>},
        message \in ErrorMessages,
        details \in {<<FALSE, <<>>>>} \cup ({TRUE} \X SeqsUpTo(ErrorDetails, MaxErrorDetails))}

UpstreamModels == {<<"claude", "-sonnet-4-5">>, <<"gemini", "-3-pro">>}
EndpointInputs ==
    {[configuredUrl |-> u, allowFallback |-> a, model |-> m] :
        u \in {<<>>, CustomUrl, ProdUrl, DailySandboxUrl}, a \in BOOLEAN, m \in UpstreamModels}

ForcedRescueInputs ==
    {[request |-> RequestPayload(tools, mode, <<>>), plannedToolName |-> planned] :
        tools \in {<<>>, <<"Read">>, <<"Read", "Grep">>},
        mode \in {"", "AUTO", "ANY", "NONE", "VALIDATED"},
        planned \in {"Read", "Grep"}}

Call(fn, input) == [fn |-> fn, returned |-> FALSE, input |-> input]

InitFunctions ==
    /\ StreamIdle
    /\ TransportIdle
    /\ ControllerIdle
    /\ CacheEmpty
    /\ CapIdle
    /\ NormIdle
    /\ TranslatorIdle
    /\ \/ \E blocks \in SeqsUpTo(ToolResultBlocks, MaxToolResultBlocks) :
             fcall = Call("sanitizeToolResultBlocksForAntigravity", blocks)
       \/ \E durationStr \in Durations : fcall = Call("parseDurationToMs", durationStr)
       \/ \E body \in ErrorBodies : fcall = Call("parseGoogleRetryDelayMs", body)
       \/ \E body \in ErrorBodies : fcall = Call("parseGoogleErrorReason", body)
       \/ \E input \in EndpointInputs : fcall = Call("request", input)
       \/ \E input \in ForcedRescueInputs :
             fcall = Call("tryRescueAfterMissingFinishReason", input)

otherThanFunctions ==
    <<streamVars, transportVars, controllerVars, cacheVars, capVars, nz, tr>>

FunctionReturned(output) ==
    fcall' = [fn |-> fcall.fn, returned |-> TRUE, input |-> fcall.input, output |-> output]

SanitizeToolResult ==
    /\ fcall.fn = "sanitizeToolResultBlocksForAntigravity" /\ ~fcall.returned
    /\ FunctionReturned(sanitizeToolResultBlocksForAntigravity(fcall.input))
    /\ UNCHANGED otherThanFunctions

ParseDuration ==
    /\ fcall.fn = "parseDurationToMs" /\ ~fcall.returned
    /\ FunctionReturned(parseDurationToMs(fcall.input))
    /\ UNCHANGED otherThanFunctions

ParseRetryDelay ==
    /\ fcall.fn = "parseGoogleRetryDelayMs" /\ ~fcall.returned
    /\ FunctionReturned(parseGoogleRetryDelayMs(fcall.input))
    /\ UNCHANGED otherThanFunctions

ParseErrorReason ==
    /\ fcall.fn = "parseGoogleErrorReason" /\ ~fcall.returned
    /\ FunctionReturned(parseGoogleErrorReason(fcall.input))
    /\ UNCHANGED otherThanFunctions

\* request() up to the order of the endpoints it will try
OrderEndpoints ==
    /\ fcall.fn = "request" /\ ~fcall.returned
    /\ FunctionReturned(orderedEndpoints(fcall.input.configuredUrl, fcall.input.allowFallback,
                                 fcall.input.model))
    /\ UNCHANGED otherThanFunctions

\* the second rescue call up to the envelope that is sent
BuildForcedEnvelope ==
    /\ fcall.fn = "tryRescueAfterMissingFinishReason" /\ ~fcall.returned
    /\ FunctionReturned(normalizeAntigravityEnvelope(
                    forcedRequestData(fcall.input.request, fcall.input.plannedToolName)))
    /\ UNCHANGED otherThanFunctions

NextFunctions ==
    \/ SanitizeToolResult
    \/ ParseDuration
    \/ ParseRetryDelay
    \/ ParseErrorReason
    \/ OrderEndpoints
    \/ BuildForcedEnvelope

SpecFunctions == InitFunctions /\ [][NextFunctions]_vars

(* Claims about the functions checked on their own *)

HasReturned(fn) == fcall.fn = fn /\ fcall.returned

isBase64Image(block) == block.type = "image" /\ block.base64

\* C34: the output of the antigravity sanitizer holds no base64 image block
\* and exactly one explanatory text block for each image removed (as stated)
C34_OneNotePerRemovedImage ==
    HasReturned("sanitizeToolResultBlocksForAntigravity") =>
        /\ \A i \in DOMAIN fcall.output : ~isBase64Image(fcall.output[i])
        /\ Cardinality({i \in DOMAIN fcall.output : fcall.output[i].omitted})
              = Cardinality({i \in DOMAIN fcall.input : isBase64Image(fcall.input[i])})

\* C35: the envelope of the second rescue request has functionCallingConfig
\* mode ANY and allowedFunctionNames the one planned tool (as stated)
C35_ForcedEnvelopeKeepsAny ==
    HasReturned("tryRescueAfterMissingFinishReason") =>
        /\ fcall.output.mode = "ANY"
        /\ fcall.output.allowedFunctionNames = <<fcall.input.plannedToolName>>

\* the milliseconds of the durations of the form 'Ns' and 'Nms', -1 for the others
ExpectedMs(durationStr) ==
    CASE durationStr = <<"2", ".", "5", "s">> -> 2500
      [] durationStr = <<"7", "s">> -> 7000
      [] durationStr = <<"0", ".", "8", "5", "s">> -> 850
      [] durationStr = <<"3", "7", "3", "m", "s">> -> 373
      [] durationStr = <<"3", "7", "3", ".", "8", "m", "s">> -> 374
      [] durationStr = <<" ", "3", "S", " ">> -> 3000
      [] durationStr = <<"1", ".", "5", "M", "S">> -> 2
      [] OTHER -> -1

\* the milliseconds of the 'after Ns' phrase of a message, -1 without one
ExpectedAfterMs(message) ==
    CASE message = <<"R", "e", "t", "r", "y", " ", "a", "f", "t", "e", "r", " ", "1", "2", "s", ".">> -> 12000
      [] message = <<"r", "e", "s", "e", "t", " ", "A", "F", "T", "E", "R", " ", " ", "4", "S">> -> 4000
      [] OTHER -> -1

delaysOf(body, type, field) ==
    IF ~body.hasDetails THEN <<>>
    ELSE SelectSeq([i \in DOMAIN body.details |->
                       IF body.details[i].type = type
                       THEN ExpectedMs(body.details[i][field]) ELSE -1],
                   LAMBDA ms : ms # -1)

\* C36: parseGoogleRetryDelayMs returns the milliseconds of the first
\* RetryInfo delay of the form 'Ns' or 'Nms', rounded to a whole number;
\* without one, those of the first such ErrorInfo quotaResetDelay; without
\* either, those of the 'after Ns' phrase of the message; else nothing
C36_RetryDelayPrecedence ==
    HasReturned("parseGoogleRetryDelayMs") =>
        Let(delaysOf(fcall.input, "RetryInfo", "retryDelay"), LAMBDA retry :
        Let(delaysOf(fcall.input, "ErrorInfo", "quotaResetDelay"), LAMBDA quota :
            fcall.output = IF retry # <<>> THEN retry[1]
                           ELSE IF quota # <<>> THEN quota[1]
                           ELSE ExpectedAfterMs(fcall.input.message)))

\* C36: parseDurationToMs gives the milliseconds of 'Ns' and 'Nms'
C36_DurationsInMs ==
    HasReturned("parseDurationToMs") => fcall.output = ExpectedMs(fcall.input)

\* a body with a RetryInfo of 2.5s behind an ErrorInfo with a delay and with
\* an 'after Ns' message has given 2500
C36_RetryInfoWon ==
    /\ HasReturned("parseGoogleRetryDelayMs")
    /\ fcall.input.details
          = <<ErrorInfo(<<"3", "7", "3", "m", "s">>, "", ""), RetryInfo(<<"2", ".", "5", "s">>)>>
    /\ fcall.input.message = <<"R", "e", "t", "r", "y", " ", "a", "f", "t", "e", "r", " ", "1", "2", "s", ".">>
    /\ fcall.output = 2500

\* C38: for a 429 body with status RESOURCE_EXHAUSTED and no details, or
\* with a message holding 'resource has been exhausted', the exported
\* parseGoogleErrorReason returns RESOURCE_EXHAUSTED (as stated)
C38_GenericResourceExhausted ==
    /\ HasReturned("parseGoogleErrorReason")
    /\ ~fcall.input.hasDetails
    /\ fcall.input.code = 429
    /\ \/ fcall.input.status = "RESOURCE_EXHAUSTED"
       \/ fcall.input.message = ResourceExhaustedMessage
    => fcall.output = "RESOURCE_EXHAUSTED"

\* C39: with no configured URL and a claude model the first endpoint tried
\* is prod, and the daily endpoints come after it (as stated)
C39_ProdFirstForClaude ==
    /\ HasReturned("request")
    /\ fcall.input.configuredUrl = <<>>
    /\ includes(fcall.input.model, <<"claude">>)
    => /\ fcall.output[1] = ProdUrl
       /\ \A i \in DOMAIN fcall.output :
             fcall.output[i] \in {DailyUrl, DailySandboxUrl} => i > 1

(* Claims about the signature cache write of the stream *)

\* the step wrote a thinking_delta
ThinkingWritten ==
    \E i \in (Len(st.out) + 1)..Len(st'.out) : IsDelta(st'.out[i], "thinking_delta")

\* C37: during an antigravity stream with a session, whenever a thinking
\* delta is written while a thought signature has been received, that
\* signature is handed to the signature cache under the session and the
\* full thinking text of the block (as stated)
C37_ThinkingDeltaCachesSignature ==
    [][(/\ cfg.vendor = "antigravity" /\ cfg.sessionHash # ""
        /\ ThinkingWritten
        /\ st'.emittedThoughtSignature # <<>>)
       => \E i \in DOMAIN st'.signatureCacheCalls :
             st'.signatureCacheCalls[i] =
                [sessionId |-> cfg.sessionHash, text |-> st'.emittedThinking,
                 signature |-> st'.emittedThoughtSignature]]_vars

\* the same outside the thinking-first mode
C37_CachedOutsideThinkingFirst ==
    [][(/\ cfg.vendor = "antigravity" /\ cfg.sessionHash # ""
        /\ ~cfg.wantsThinkingBlockFirst
        /\ ThinkingWritten
        /\ st'.emittedThoughtSignature # <<>>)
       => \E i \in DOMAIN st'.signatureCacheCalls :
             st'.signatureCacheCalls[i] =
                [sessionId |-> cfg.sessionHash, text |-> st'.emittedThinking,
                 signature |-> st'.emittedThoughtSignature]]_vars

\* in the thinking-first mode no signature is ever handed to the cache
C37_ThinkingFirstNeverCaches ==
    cfg.wantsThinkingBlockFirst => st.signatureCacheCalls = <<>>

(* The streaming request under fair scheduling: an armed timer that is not *)
(* cleared fires, and each rescue call and the backoff between the two     *)
(* returns.  Nothing is assumed of the upstream or the client.             *)

SpecFair ==
    /\ Init
    /\ [][Next]_vars
    /\ WF_vars(ActivityTimeout)
    /\ WF_vars(FirstByteTimeout)
    /\ WF_vars(RescueLevel1Return)
    /\ WF_vars(RescueBackoff)
    /\ WF_vars(RescueLevel2Return)

SentMessageStart == Count(st.out, "message_start") > 0

ResponseEnded == st.resEndCalls # <<>>

\* C40 witness: a started response whose upstream stayed silent was ended by
\* the activity watchdog
C40_EndedByWatchdog ==
    /\ SentMessageStart
    /\ nChunks = 0
    /\ st.resEndCalls = <<"activity">>

\* C40: every streaming response that has sent message_start is eventually
\* ended, whatever the upstream does, provided the rescue calls return
C40_StartedResponseIsEnded == SentMessageStart ~> ResponseEnded

=============================================================================
